---- MODULE Spec2Model ----
(***************************************************************************)
(* goaccess, src/parser.c: the read/parse pipeline (read_log, read_lines,  *)
(* perform_initial_sniff, read_lines_from_file, read_lines_thread,         *)
(* process_lines, the final drain), the per-line classifier (parse_line,   *)
(* process_invalid, read_line) and the resume gate                         *)
(* (should_restore_from_disk, is_likely_same_log, persist_last_parse).     *)
(*                                                                         *)
(* A log line is abstracted to what parse_line looks at: its first byte    *)
(* (valid_line), the outcome of the directive walk, which of the required  *)
(* fields it yields, the %s token, the timestamp mktime computes from its  *)
(* date and time, and the verdict of the external ignore classifiers.      *)
(***************************************************************************)
EXTENDS Integers, Sequences, FiniteSets, TLC

\* ---------------------------------------------------------------- bounds
MaxLines == 3      \* longest input, in lines
MaxJobs == 2       \* largest conf.jobs
MaxChunk == 2      \* largest conf.chunk_size
MaxTests == 2      \* largest conf.num_tests
MaxRuns == 2       \* runs of the program over the same log
MaxShort == 2      \* longest input where every kind of line is tried
MaxDryRun == 2     \* the dry-run line limit, scaled to the inputs

\* ------------------------------------------------------ program constants
\* The dry-run line limit of read_lines (20 in the headers), scaled so that
\* the limit is reached within MaxLines.
NUM_TESTS == MaxDryRun
IGNORE_LEVEL_PANEL == 1
IGNORE_LEVEL_REQ == 2

Min(a, b) == IF a < b THEN a ELSE b
Max(a, b) == IF a > b THEN a ELSE b

\* ----------------------------------------------------------------- lines
\* The %s token of a line: absent (the format has no %s), or what strtol
\* makes of it: whether any digit was consumed, the value, and whether
\* bytes remain after the number.
NoTok == [present |-> FALSE, digits |-> FALSE, val |-> 0, rest |-> FALSE]
Tok(v) == [present |-> TRUE, digits |-> TRUE, val |-> v, rest |-> FALSE]
TokGarbage == [present |-> TRUE, digits |-> TRUE, val |-> 200, rest |-> TRUE]

\* first: class of the first byte; ret: result of the directive walk apart
\* from %s; host, date, req: the required fields the walk fills; ts: what
\* mktime gives for the item's dt; ign: the level ignore_line's classifiers
\* give the item.
Line(first, ret, host, date, req, ts, stok, ign) ==
  [first |-> first, ret |-> ret, host |-> host, date |-> date, req |-> req,
   ts |-> ts, stok |-> stok, ign |-> ign]

LComment == Line("hash", 0, FALSE, FALSE, FALSE, 0, NoTok, 0)
LBadFmt == Line("data", 1, TRUE, TRUE, FALSE, 2, NoTok, 0)
LNoHost == Line("data", 0, FALSE, TRUE, TRUE, 1, Tok(200), 0)
LNoDate == Line("data", 0, TRUE, FALSE, TRUE, 1, Tok(200), 0)
LNoReq == Line("data", 0, TRUE, TRUE, FALSE, 1, Tok(200), 0)
LOk1 == Line("data", 0, TRUE, TRUE, TRUE, 1, Tok(200), 0)
LOk2 == Line("data", 0, TRUE, TRUE, TRUE, 2, Tok(404), 0)
LOk3 == Line("data", 0, TRUE, TRUE, TRUE, 3, NoTok, IGNORE_LEVEL_REQ)
LEpoch == Line("data", 0, TRUE, TRUE, TRUE, 0, Tok(200), 0)
LMinus1 == Line("data", 0, TRUE, TRUE, TRUE, -1, Tok(200), 0)
LNegStatus == Line("data", 0, TRUE, TRUE, TRUE, 1, Tok(-5), 0)
LOddStatus == Line("data", 0, TRUE, TRUE, TRUE, 1, Tok(999), 0)
LBadStatus == Line("data", 0, TRUE, TRUE, TRUE, 1, TokGarbage, 0)
LPanel == Line("data", 0, TRUE, TRUE, TRUE, 2, Tok(200), IGNORE_LEVEL_PANEL)

\* All sequences over S of length 0..n.
SeqsUpTo(S, n) == UNION {[1..m -> S] : m \in 0..n}

\* ----------------------------------------------------------------- items
\* A GLogItem, reduced to the fields the pipeline and the claims read.
\* null marks the NULL pointer; freed marks an item free_glog has released
\* (the slot of a chunk keeps the pointer).
NullItem ==
  [null |-> TRUE, line |-> 0, host |-> FALSE, date |-> FALSE, req |-> FALSE,
   errstr |-> FALSE, status |-> -1, ignorelevel |-> 0, freed |-> FALSE]

init_log_item(n) ==
  [null |-> FALSE, line |-> n, host |-> FALSE, date |-> FALSE, req |-> FALSE,
   errstr |-> FALSE, status |-> -1, ignorelevel |-> 0, freed |-> FALSE]

\* is_valid_http_status lives outside parser.c: the registered codes, a few
\* of them.
ValidStatus == {200, 301, 404, 444, 500}
is_valid_http_status(code) == code \in ValidStatus

\* parse_specifier, case 's': the token is rejected when strtol consumed
\* nothing, when bytes follow the number, or (strict mode) when the number
\* is no HTTP status. The status is assigned before the test.
StatusRejected(tok, no_strict_status) ==
  \/ ~tok.digits
  \/ tok.rest
  \/ (~no_strict_status /\ ~is_valid_http_status(tok.val))

\* parse_format: the directive walk. Returns the item and the return code.
\* A failing directive sets errstr (spec_err) and returns 1.
parse_format(ln, n, c) ==
  LET it0 == [init_log_item(n) EXCEPT !.host = ln.host, !.date = ln.date,
                                      !.req = ln.req]
  IN IF ln.ret # 0
       THEN [ret |-> 1, item |-> [it0 EXCEPT !.errstr = TRUE]]
     ELSE IF ~ln.stok.present
       THEN [ret |-> 0, item |-> it0]
     ELSE IF StatusRejected(ln.stok, c.no_strict_status)
       THEN [ret |-> 1,
             item |-> [it0 EXCEPT !.status = ln.stok.val, !.errstr = TRUE]]
     ELSE [ret |-> 0, item |-> [it0 EXCEPT !.status = ln.stok.val]]

\* valid_line: 1 for an empty line or a comment.
valid_line(ln) == ln.first \in {"nul", "hash", "nl"}

\* verify_missing_fields: sets errstr when host, date or req is missing.
\* (verify_missing_fields_lax: a check that looks at the host only.)
verify_missing_fields_lax(it) == IF ~it.host THEN [it EXCEPT !.errstr = TRUE] ELSE it
verify_missing_fields(it) ==
  IF ~it.host \/ ~it.date \/ ~it.req THEN [it EXCEPT !.errstr = TRUE] ELSE it

\* ----------------------------------------------------------- resume gate
\* A GLastParse. The snippet is a sequence of bytes (0 is NUL); its length
\* is snippetlen.
NoLastParse == [ts |-> 0, line |-> 0, size |-> 0, snippet |-> <<>>]

\* snippet[0] of a zero-filled buffer holding s.
FirstByte(s) == IF Len(s) = 0 THEN 0 ELSE s[1]

\* is_likely_same_log: 1 when nothing was saved to compare with, or when
\* both snippets are non-empty and agree on the shorter length.
is_likely_same_log(g, lp) ==
  IF lp.size = 0 THEN TRUE
  ELSE LET size == Min(Len(g.snippet), Len(lp.snippet))
       IN /\ FirstByte(g.snippet) # 0
          /\ FirstByte(lp.snippet) # 0
          /\ SubSeq(g.snippet, 1, size) = SubSeq(lp.snippet, 1, size)

\* should_restore_from_disk: TRUE (1) drops the record as already stored.
\* It reads glog->read and glog->lp.ts as they are at the time of the call.
\* (should_restore_exclusive: a pipe test that lets equal timestamps
\* through.)
should_restore_exclusive(g, lp, c) ==
  IF ~c.restore THEN FALSE
  ELSE IF lp.ts = 0 THEN FALSE
  ELSE IF g.inode # 0 /\ is_likely_same_log(g, lp)
    THEN ~(g.size > lp.size /\ g.read >= lp.line)
  ELSE IF g.inode = 0 /\ lp.ts > g.lp.ts THEN TRUE
  ELSE IF g.lp.ts >= lp.ts THEN FALSE
  ELSE TRUE
should_restore_from_disk(g, lp, c) ==
  IF ~c.restore THEN FALSE
  ELSE IF lp.ts = 0 THEN FALSE
  ELSE IF g.inode # 0 /\ is_likely_same_log(g, lp)
    THEN ~(g.size > lp.size /\ g.read >= lp.line)
  ELSE IF g.inode = 0 /\ lp.ts >= g.lp.ts THEN TRUE
  ELSE IF g.lp.ts > lp.ts THEN FALSE
  ELSE IF g.size < lp.size /\ g.lp.ts = lp.ts THEN FALSE
  ELSE TRUE

\* ------------------------------------------------------------- parse_line
\* The outcomes a line can have: handed to process_log, counted invalid
\* (count_process_and_invalid), ignored (soft-ignored by valid_line or
\* dropped at IGNORE_LEVEL_PANEL), or dropped by the resume gate.
Tags == {"log", "invalid", "ignored", "gated"}

\* atomic_lpts_update: glog->lp.ts becomes the maximum of itself and the
\* item's timestamp, in one atomic step; the timestamp is returned.
atomic_lpts_update(g, ts) == [g EXCEPT !.lp.ts = Max(g.lp.ts, ts)]

\* process_invalid up to its call of should_restore_from_disk, for an item
\* it whose line has timestamp ts: the count when not restoring, the
\* same-log test on size and line, the count of a line without a date, the
\* plain store of mktime's result into glog->lp.ts. next = "igate" leaves
\* the call of should_restore_from_disk to be made.
Invalid(g, tags) ==
  [next |-> "done", g |-> g, item |-> NullItem, ret |-> 1, tags |-> tags]
process_invalid(g, it, ts, c, lp) ==
  IF ~c.restore THEN Invalid(g, {"invalid"})
  ELSE IF g.inode # 0 /\ is_likely_same_log(g, lp)
    THEN IF g.size > lp.size /\ g.read >= lp.line
           THEN Invalid(g, {"invalid"}) ELSE Invalid(g, {"gated"})
  ELSE IF ~it.date THEN Invalid(g, {"invalid"})
  ELSE IF ts = -1 THEN Invalid([g EXCEPT !.lp.ts = ts], {})
  ELSE [next |-> "igate", g |-> [g EXCEPT !.lp.ts = ts], item |-> NullItem,
        ret |-> 1, tags |-> {}]

\* parse_line after the directive walk returned ret and verify_missing_fields
\* looked at the item: an invalid line goes to process_invalid; for a valid
\* line atomic_lpts_update runs, and a timestamp of -1 ends parse_line with
\* the item freed and 0 returned.
AfterFormat(g, ret, it, ts, c, lp) ==
  IF ret # 0 \/ it.errstr THEN process_invalid(g, it, ts, c, lp)
  ELSE IF ts = -1
    THEN [next |-> "done", g |-> atomic_lpts_update(g, ts), item |-> NullItem,
          ret |-> 0, tags |-> {}]
  ELSE [next |-> "gate", g |-> atomic_lpts_update(g, ts), item |-> it,
        ret |-> 0, tags |-> {}]

\* The item after parse_format returned pf: verify_missing_fields runs only
\* when the walk succeeded.
Verified(pf) == IF pf.ret # 0 THEN pf.item ELSE verify_missing_fields(pf.item)
AfterWalk(g, pf, ts, c, lp) == AfterFormat(g, pf.ret, Verified(pf), ts, c, lp)

\* parse_line up to and including the write of glog->lp.ts: valid_line,
\* the directive walk, verify_missing_fields and, for an invalid line,
\* process_invalid up to its call of should_restore_from_disk; for a valid
\* line, atomic_lpts_update. next says what is left of parse_line: nothing
\* ("done"), the gate of a valid line ("gate") or the gate of process_invalid
\* ("igate").
ParseLine1(g, ln, n, c, lp) ==
  IF valid_line(ln)
    THEN [next |-> "done", g |-> g, item |-> NullItem, ret |-> -1,
          tags |-> {"ignored"}]
    ELSE AfterWalk(g, parse_format(ln, n, c), ln.ts, c, lp)

\* The rest of parse_line: should_restore_from_disk and, for a line that
\* passes, count_process, the dry-run return, ignore_line and the return of
\* the item.
ParseLine2(g, it, ln, c, lp, next) ==
  IF next = "igate"
    THEN [item |-> NullItem, ret |-> 1,
          tags |-> IF should_restore_from_disk(g, lp, c)
                     THEN {"gated"} ELSE {"invalid"}]
  ELSE IF should_restore_from_disk(g, lp, c)
    THEN [item |-> NullItem, ret |-> 0, tags |-> {"gated"}]
  ELSE IF c.dry_run
    THEN [item |-> NullItem, ret |-> 0, tags |-> {}]
  ELSE IF ln.ign = IGNORE_LEVEL_PANEL
    THEN [item |-> NullItem, ret |-> 0, tags |-> {"ignored"}]
  ELSE [item |-> [it EXCEPT !.ignorelevel = ln.ign], ret |-> 0, tags |-> {}]

\* read_line after parse_line returned ret: the test flag, the soft ignore,
\* the test counter and the abort of the format test. count says whether
\* glog->read is incremented and the item returned.
\* (ClearedNever: a read_line that forgets to clear the test flag.)
ClearedNever(ret, test) == test
Cleared(ret, test) == IF ret = 0 THEN 0 ELSE test
ReadLineTail(ret, test, cnt, c) ==
  IF ret = -1 THEN [test |-> Cleared(ret, test), cnt |-> cnt, count |-> FALSE]
  ELSE IF c.num_tests # 0
    THEN [test |-> Cleared(ret, test), cnt |-> cnt + 1,
          count |-> ~(cnt + 1 >= c.num_tests /\ Cleared(ret, test) # 0)]
  ELSE [test |-> Cleared(ret, test), cnt |-> cnt, count |-> TRUE]

\* read_line run to completion by one thread with no other thread running
\* (the sniff, and the inline parse of conf.jobs = 1): parse_line, the tail
\* of read_line, glog->read++.
ReadLineEnd(g, r2, tl) ==
  [g |-> IF tl.count THEN [g EXCEPT !.read = g.read + 1] ELSE g,
   item |-> IF tl.count THEN r2.item ELSE NullItem,
   test |-> tl.test, cnt |-> tl.cnt, tags |-> r2.tags]
ReadLineGated(g, r2, test, cnt, c) ==
  ReadLineEnd(g, r2, ReadLineTail(r2.ret, test, cnt, c))
ReadLineParsed(r1, ln, test, cnt, c, lp) ==
  ReadLineGated(r1.g,
                IF r1.next = "done"
                  THEN [item |-> r1.item, ret |-> r1.ret, tags |-> r1.tags]
                  ELSE ParseLine2(r1.g, r1.item, ln, c, lp, r1.next),
                test, cnt, c)
read_line(g, ln, n, test, cnt, c, lp) ==
  ReadLineParsed(ParseLine1(g, ln, n, c, lp), ln, test, cnt, c, lp)

\* ------------------------------------------------- numbers of parse_specifier
\* uint64_t and double values are wider than the integers at hand: a natural
\* number is kept as its limbs, least significant first, with no zero limb
\* at the top (0 is the empty sequence).
Limb == 2^15
RECURSIVE BNorm(_)
BNorm(a) ==
  IF a = <<>> THEN a
  ELSE IF a[Len(a)] = 0 THEN BNorm(SubSeq(a, 1, Len(a) - 1)) ELSE a
BFromInt(n) == BNorm(<<n % Limb, (n \div Limb) % Limb, n \div (Limb * Limb)>>)
RECURSIVE BToIntFrom(_, _)
BToIntFrom(a, i) == IF i > Len(a) THEN 0 ELSE a[i] + Limb * BToIntFrom(a, i + 1)
BToInt(a) == BToIntFrom(a, 1)
BOdd(a) == a # <<>> /\ a[1] % 2 = 1

\* a * c for a small c.
RECURSIVE BMulFrom(_, _, _, _)
BMulFrom(a, c, i, carry) ==
  IF i > Len(a) THEN (IF carry = 0 THEN <<>> ELSE <<carry>>)
  ELSE <<(a[i] * c + carry) % Limb>>
         \o BMulFrom(a, c, i + 1, (a[i] * c + carry) \div Limb)
BMulS(a, c) == BNorm(BMulFrom(a, c, 1, 0))

\* a + 1.
RECURSIVE BIncFrom(_, _)
BIncFrom(a, i) ==
  IF i > Len(a) THEN <<1>>
  ELSE IF a[i] + 1 < Limb
    THEN <<a[i] + 1>> \o SubSeq(a, i + 1, Len(a))
  ELSE <<0>> \o BIncFrom(a, i + 1)
BInc(a) == BIncFrom(a, 1)

\* a divided by a small c: the quotient's limbs from limb i down, and the
\* remainder.
BDivPut(limb, low) == [q |-> Append(low.q, limb), r |-> low.r]
RECURSIVE BDivFrom(_, _, _, _)
BDivFrom(a, c, i, rem) ==
  IF i = 0 THEN [q |-> <<>>, r |-> rem]
  ELSE BDivPut((rem * Limb + a[i]) \div c,
               BDivFrom(a, c, i - 1, (rem * Limb + a[i]) % c))
BDivDone(d) == [q |-> BNorm(d.q), r |-> d.r]
BDivS(a, c) == BDivDone(BDivFrom(a, c, Len(a), 0))
BHalf(a) == BDivS(a, 2).q

\* a >= b.
RECURSIVE BGeFrom(_, _, _)
BGeFrom(a, b, i) ==
  IF i = 0 THEN TRUE
  ELSE IF a[i] # b[i] THEN a[i] > b[i] ELSE BGeFrom(a, b, i - 1)
BGe(a, b) ==
  IF Len(a) # Len(b) THEN Len(a) > Len(b) ELSE BGeFrom(a, b, Len(a))

\* A double: m * 2^e with m below 2^53 (0.0 has m = 0). The products and
\* quotients below are rounded to the nearest such value, ties to even, as
\* the FPU and strtod do.
Two53 == <<0, 0, 0, 2^8>>
Two54 == <<0, 0, 0, 2^9>>
DZero == [m |-> <<>>, e |-> 0]
DRoundLast(half, odd, e, sticky) ==
  [m |-> IF odd /\ (sticky \/ BOdd(half)) THEN BInc(half) ELSE half, e |-> e]
RECURSIVE DRound(_, _, _)
DRound(a, e, sticky) ==
  IF BGe(a, Two54) THEN DRound(BHalf(a), e + 1, sticky \/ BOdd(a))
  ELSE IF BGe(a, Two53) THEN DRoundLast(BHalf(a), BOdd(a), e + 1, sticky)
  ELSE [m |-> a, e |-> e]

\* The double nearest to a / d for a small d >= 1 (strtod of a decimal
\* number; the conversion of an integer when d = 1).
DQuot(qr, e) == DRound(qr.q, e, qr.r # 0)
RECURSIVE DDivFrom(_, _, _)
DDivFrom(a, d, e) ==
  IF BGe(BDivS(a, d).q, Two53) THEN DQuot(BDivS(a, d), e)
  ELSE DDivFrom(BMulS(a, 2), d, e - 1)
DDiv(n, d) == IF n = 0 THEN DZero ELSE DDivFrom(BFromInt(n), d, 0)

\* x * 1000 and x * 1000000 in double arithmetic: one rounding each.
DMulMILS(x) == DRound(BMulS(x.m, 1000), x.e, FALSE)
DMulSECS(x) == DRound(BMulS(BMulS(x.m, 1000), 1000), x.e, FALSE)

\* The conversion of a positive double to uint64_t: the fraction is cut off.
RECURSIVE DTrunc(_, _)
DTrunc(a, e) ==
  IF a = <<>> \/ e = 0 THEN a
  ELSE IF e > 0 THEN DTrunc(BMulS(a, 2), e - 1) ELSE DTrunc(BHalf(a), e + 1)
DToU64(x) == BToInt(DTrunc(x.m, x.e))

\* ------------------------------------------------------------------ state
VARIABLES
  conf,      \* the configuration: jobs, chunk_size, num_tests, restore,
             \* dry_run (the argument of parse_log), no_strict_status
  src,       \* the log: inode (0 for a pipe), snippet, eagain (a pipe whose
             \* read fails with EAGAIN when the data runs out)
  input,     \* the lines of the log
  ht,        \* the LastParse stored for the log's inode (ht_get_last_parse)
  lp0,       \* ht as it was when the current run started
  glog,      \* the GLog: props.inode, props.size, snippet, read, bytes, lp
  pos,       \* the file position, in lines consumed by fgetline
  errno,     \* errno as the last failing fgets left it
  m,         \* the main thread: pc and the locals of read_lines and
             \* perform_initial_sniff
  jobs,      \* GJob jobs[2][conf.jobs]
  thr,       \* pthread_t threads[conf.jobs]: the thread each handle names
  stop,      \* conf.stop_processing
  emitted,   \* the items handed to process_log in this run, in call order
  outcome,   \* per input line, the outcomes it had in this run
  run,       \* number of the current run
  prev,      \* the previous run: whether it persisted LastParse, how many
             \* process_log calls it made, whether it read the whole log
             \* with no SIGINT
  fault,     \* the slots <<b, k>> whose last pthread_create failed
  walk,      \* parse_format at work on one line: the directives left, the
             \* item so far, the return code
  gate       \* should_restore_from_disk, or process_invalid, called on glog
             \* as it stands: where the call is and what it returned

vars ==
  <<conf, src, input, ht, lp0, glog, pos, errno, m, jobs, thr, stop, emitted,
    outcome, run, prev, fault, walk, gate>>

Blocks == {0, 1}
Slots == 0..(conf.jobs - 1)

\* A GLog of a fresh process (xcalloc).
NewGLog ==
  [inode |-> 0, size |-> 0, snippet |-> <<>>, read |-> 0, bytes |-> 0,
   lp |-> NoLastParse]

\* init_jobs, one slot.
\* parsed is history: the number of lines of the current fill that read_line
\* has dealt with.
NewJob(test) ==
  [p |-> 0, cnt |-> 0, test |-> test, running |-> 0, lines |-> <<>>,
   logitems |-> [i \in 1..conf.chunk_size |-> NullItem], parsed |-> 0]

\* A handle of threads[] before any pthread_create wrote it.
NoThread == [st |-> "none", blk |-> 0, i |-> 1, ph |-> "parse", it |-> NullItem,
             tmp |-> 0]

NewMain ==
  [pc |-> "open", b |-> 0, k |-> 0, cnt |-> 0, test |-> 0, s |-> FALSE,
   icnt |-> 0, itest |-> 1, ret |-> 0, persisted |-> FALSE, sniffed |-> 0]

NoPrev == [persisted |-> FALSE, calls |-> 0, complete |-> FALSE]

\* No directive walk is being looked at.
NoWalk ==
  [rest |-> <<>>, applied |-> <<>>, item |-> NullItem, ret |-> 0,
   out |-> "none"]

\* No call of should_restore_from_disk is being looked at.
\* date, ts and counted belong to a call of process_invalid: whether its
\* item has a date, what mktime makes of it, and whether the line was
\* counted (count_process_and_invalid).
NoGate ==
  [st |-> "none", ret |-> 0, date |-> FALSE, ts |-> 0, counted |-> FALSE]

\* m.persisted says whether read_log called ht_insert_last_parse; m.sniffed
\* is history: the number of lines perform_initial_sniff consumed.

\* The state at program start, for a set of configurations, logs, inputs
\* and stored LastParse records.
InitAll(Confs, Srcs, Inputs, Stores, Walks) ==
  /\ conf \in Confs
  /\ src \in Srcs
  /\ input \in Inputs
  /\ ht \in Stores
  /\ lp0 = ht
  /\ glog = NewGLog
  /\ pos = 0
  /\ errno = "0"
  /\ m = NewMain
  /\ jobs = [bk \in Blocks \X Slots |-> NewJob(0)]
  /\ thr = [k \in Slots |-> NoThread]
  /\ stop = FALSE
  /\ emitted = <<>>
  /\ outcome = [n \in 1..Len(input) |-> {}]
  /\ run = 1
  /\ prev = NoPrev
  /\ fault = {}
  /\ walk \in Walks
  /\ gate = NoGate
InitWith(Confs, Srcs, Inputs, Stores) ==
  InitAll(Confs, Srcs, Inputs, Stores, {NoWalk})

\* ------------------------------------------------------------ main thread
\* read_log up to its call of read_lines, and read_lines up to the sniff:
\* stat (inode, size, lp.size), set_initial_persisted_data (the snippet,
\* left empty for an empty file), glog->bytes = 0, init_jobs.
FileSize == IF src.inode = 0 THEN 0 ELSE Len(input)
OpenedGLog(g) ==
  [g EXCEPT !.inode = src.inode, !.size = FileSize, !.lp.size = FileSize,
            !.snippet = IF FileSize = 0 THEN <<>> ELSE src.snippet,
            !.bytes = 0]
\* (InitialTestAlways: a test flag that starts set whatever num_tests is.)
InitialTestAlways == IF conf.num_tests >= 0 THEN 1 ELSE 0
InitialTest == IF conf.num_tests > 0 THEN 1 ELSE 0
Open ==
  /\ m.pc = "open"
  /\ glog' = OpenedGLog(glog)
  /\ jobs' = [bk \in Blocks \X Slots |-> NewJob(InitialTest)]
  /\ m' = [m EXCEPT !.pc = IF InitialTest = 1 THEN "sniff" ELSE "fill",
                    !.test = InitialTest, !.b = 0, !.cnt = 0]
  /\ UNCHANGED <<gate, walk, conf, src, input, ht, lp0, pos, errno, thr, stop, emitted,
                 outcome, run, prev, fault>>

\* process_log is called for an item the way process_lines_thread and the
\* sniff do: a non-null item, outside a dry run, with no errstr.
Handed(it) == ~it.null /\ ~conf.dry_run /\ ~it.errstr

AddTags(out, n, tags) == [out EXCEPT ![n] = @ \cup tags]

\* perform_initial_sniff, one turn of its loop: fgetline, read_line and,
\* outside a dry run, process_log of the item.
SniffApply(n, r) ==
  /\ glog' = r.g
  /\ pos' = n
  /\ m' = [m EXCEPT !.itest = r.test, !.icnt = r.cnt]
  /\ emitted' = IF Handed(r.item) THEN Append(emitted, r.item) ELSE emitted
  /\ outcome' = AddTags(outcome, n,
                        IF Handed(r.item) THEN r.tags \cup {"log"} ELSE r.tags)
SniffLine ==
  /\ m.pc = "sniff"
  /\ m.icnt < conf.num_tests
  /\ pos < Len(input)
  /\ SniffApply(pos + 1,
                read_line(glog, input[pos + 1], pos + 1, m.itest, m.icnt, conf, ht))
  /\ UNCHANGED <<gate, walk, conf, src, input, ht, lp0, errno, jobs, thr, stop, run, prev,
                 fault>>

\* fgets failing at the end of the data: a pipe with no writer data left
\* fails with EAGAIN, end of file leaves errno alone.
ErrnoAtEnd == IF src.inode = 0 /\ src.eagain THEN "EAGAIN" ELSE errno

\* perform_initial_sniff after its loop: with no line parsed the format is
\* a mismatch and read_lines returns 1, which read_log passes on without
\* persist_last_parse; otherwise every slot's test flag and read_lines'
\* test are cleared and the pipeline starts where the sniff stopped.
\* (SniffEndRewinds: a sniff that ends with the file rewound to its start.)
SniffEndRewinds ==
  /\ m.pc = "sniff"
  /\ m.icnt >= conf.num_tests \/ pos = Len(input)
  /\ errno' = IF m.icnt < conf.num_tests THEN ErrnoAtEnd ELSE errno
  /\ pos' = IF m.itest # 0 THEN pos ELSE 0
  /\ IF m.itest # 0
       THEN /\ m' = [m EXCEPT !.pc = "done", !.ret = 1, !.sniffed = pos]
            /\ jobs' = jobs
       ELSE /\ m' = [m EXCEPT !.pc = "fill", !.test = 0, !.cnt = 0, !.b = 0,
                              !.sniffed = pos]
            /\ jobs' = [bk \in Blocks \X Slots |-> [jobs[bk] EXCEPT !.test = 0]]
  /\ UNCHANGED <<gate, walk, conf, src, input, ht, lp0, glog, thr, stop, emitted,
                 outcome, run, prev, fault>>
SniffEnd ==
  /\ m.pc = "sniff"
  /\ m.icnt >= conf.num_tests \/ pos = Len(input)
  /\ errno' = IF m.icnt < conf.num_tests THEN ErrnoAtEnd ELSE errno
  /\ IF m.itest # 0
       THEN /\ m' = [m EXCEPT !.pc = "done", !.ret = 1, !.sniffed = pos]
            /\ jobs' = jobs
       ELSE /\ m' = [m EXCEPT !.pc = "fill", !.test = 0, !.cnt = 0, !.b = 0,
                              !.sniffed = pos]
            /\ jobs' = [bk \in Blocks \X Slots |-> [jobs[bk] EXCEPT !.test = 0]]
  /\ UNCHANGED <<gate, walk, conf, src, input, ht, lp0, glog, pos, thr, stop, emitted,
                 outcome, run, prev, fault>>

\* read_lines_from_file from chunk k on, the file being at line p0: each
\* chunk takes lines until it holds chunk_size of them (s is then the last
\* line read) or fgetline returns NULL (s is then NULL, and the next chunk
\* calls fgetline again). eof says whether some fgetline returned NULL.
RECURSIVE FillBlock(_, _, _, _, _, _)
FillBlock(js, b, k, p0, s, eof) ==
  IF k = conf.jobs THEN [jobs |-> js, pos |-> p0, s |-> s, eof |-> eof]
  ELSE LET job == js[<<b, k>>]
           room == conf.chunk_size - job.p
           take == Min(room, Len(input) - p0)
           got == [i \in 1..take |-> p0 + i]
       IN FillBlock([js EXCEPT ![<<b, k>>] =
                        [job EXCEPT !.p = job.p + take,
                                    !.lines = SubSeq(job.lines, 1, job.p) \o got]],
                    b, k + 1, p0 + take, take = room, eof \/ take < room)

\* read_lines, the head of its loop: read_lines_from_file on block b, and
\* the break taken when nothing was read from the log so far.
ReadBlock ==
  /\ m.pc = "fill"
  /\ LET f == FillBlock(jobs, m.b, 0, pos, m.s, FALSE)
         bytes == glog.bytes + (f.pos - pos)
     IN /\ jobs' = f.jobs
        /\ pos' = f.pos
        /\ errno' = IF f.eof THEN ErrnoAtEnd ELSE errno
        /\ glog' = [glog EXCEPT !.bytes = bytes]
        /\ m' = IF bytes = 0
                  THEN [m EXCEPT !.s = f.s, !.test = 0, !.pc = "drain",
                                 !.b = 0, !.k = 0]
                  ELSE [m EXCEPT !.s = f.s, !.pc = "spawn", !.k = 0]
  /\ UNCHANGED <<gate, walk, conf, src, input, ht, lp0, thr, stop, emitted, outcome, run,
                 prev, fault>>

\* read_lines_thread run by the main thread (conf.jobs = 1): one turn of
\* its loop, on line i of the chunk, read_line having returned r.
RunLineApply(st, i, n, r) ==
  [g |-> r.g,
   job |-> [st.job EXCEPT !.logitems[i] = r.item, !.test = r.test,
                          !.cnt = r.cnt, !.parsed = @ + 1],
   out |-> AddTags(st.out, n, r.tags)]
RunLineAt(st, i, n) ==
  RunLineApply(st, i, n,
               read_line(st.g, input[n], n, st.job.test, st.job.cnt, conf, ht))
RunLine(st, i) == RunLineAt(st, i, st.job.lines[i])

\* read_lines_thread from line i of the chunk on.
RECURSIVE RunChunk(_, _)
RunChunk(st, i) ==
  IF i > st.job.p THEN st ELSE RunChunk(RunLine(st, i), i + 1)

\* read_lines with conf.jobs = 1: read_lines_thread (&jobs[b][0]) inline.
SpawnApply(r) ==
  /\ glog' = r.g
  /\ jobs' = [jobs EXCEPT ![<<m.b, 0>>] = r.job]
  /\ outcome' = r.out
SpawnInline ==
  /\ m.pc = "spawn"
  /\ conf.jobs = 1
  /\ SpawnApply(RunChunk([g |-> glog, job |-> jobs[<<m.b, 0>>], out |-> outcome], 1))
  /\ m' = [m EXCEPT !.pc = "insert", !.k = 0]
  /\ UNCHANGED <<gate, walk, conf, src, input, ht, lp0, pos, errno, thr, stop, emitted,
                 run, prev, fault>>

\* A thread that pthread_create just started on slot k of block b.
StartedThread(b) == [NoThread EXCEPT !.st = "run", !.blk = b]

\* read_lines with conf.jobs > 1, one turn of the creation loop: the slot
\* is marked running and pthread_create starts read_lines_thread on it;
\* after the last slot, b is flipped for process_lines.
\* (PthreadCreateNoFlip: a loop that hands process_lines the block just
\* given to the workers.)
PthreadCreateNoFlip ==
  /\ m.pc = "spawn"
  /\ conf.jobs > 1
  /\ jobs' = [jobs EXCEPT ![<<m.b, m.k>>].running = 1]
  /\ thr' = [thr EXCEPT ![m.k] = StartedThread(m.b)]
  /\ m' = IF m.k + 1 = conf.jobs
            THEN [m EXCEPT !.pc = "insert", !.k = 0]
            ELSE [m EXCEPT !.k = m.k + 1]
  /\ UNCHANGED <<gate, walk, conf, src, input, ht, lp0, glog, pos, errno, stop,
                 emitted, outcome, run, prev, fault>>
PthreadCreate ==
  /\ m.pc = "spawn"
  /\ conf.jobs > 1
  /\ jobs' = [jobs EXCEPT ![<<m.b, m.k>>].running = 1]
  /\ thr' = [thr EXCEPT ![m.k] = StartedThread(m.b)]
  /\ m' = IF m.k + 1 = conf.jobs
            THEN [m EXCEPT !.pc = "insert", !.k = 0, !.b = 1 - m.b]
            ELSE [m EXCEPT !.k = m.k + 1]
  /\ UNCHANGED <<gate, walk, conf, src, input, ht, lp0, glog, pos, errno, stop, emitted,
                 outcome, run, prev, fault>>

\* process_lines_thread: the items of logitems[0..p-1] that go to
\* process_log, in order; each is freed after the call.
ChunkItems(job) == [i \in 1..job.p |-> job.logitems[i]]
\* (ChunkHandedRev: an inserter walking the chunk from its end.)
ChunkHandedRev(job) ==
  LET h == SelectSeq(ChunkItems(job), Handed)
  IN [i \in 1..Len(h) |-> h[Len(h) + 1 - i]]
ChunkHanded(job) == SelectSeq(ChunkItems(job), Handed)

\* The slot after process_lines_thread and the resets process_lines and
\* the drain make: cnt and p are zeroed, the freed items stay in logitems.
\* (JobAfterInsertKeepsP: resets that leave p as it was.)
JobAfterInsertKeepsP(job) ==
  [job EXCEPT !.cnt = 0,
              !.logitems = [i \in DOMAIN job.logitems |->
                              IF i <= job.p /\ Handed(job.logitems[i])
                                THEN [job.logitems[i] EXCEPT !.freed = TRUE]
                                ELSE job.logitems[i]]]
JobAfterInsert(job) ==
  [job EXCEPT !.cnt = 0, !.p = 0, !.parsed = 0,
              !.logitems = [i \in DOMAIN job.logitems |->
                              IF i <= job.p /\ Handed(job.logitems[i])
                                THEN [job.logitems[i] EXCEPT !.freed = TRUE]
                                ELSE job.logitems[i]]]

LogTags(out, items) ==
  [n \in DOMAIN out |->
     IF \E i \in 1..Len(items) : items[i].line = n
       THEN out[n] \cup {"log"} ELSE out[n]]

BitAnd(x, y) == IF x # 0 /\ y # 0 THEN 1 ELSE 0

\* process_lines, one turn of its loop, on slot k of block b (the block
\* the workers are not parsing): process_lines_thread, then cnt, test and
\* p. After the last slot b is flipped back; with one job the joins are
\* skipped.
Insert ==
  /\ m.pc = "insert"
  /\ LET job == jobs[<<m.b, m.k>>]
         items == ChunkHanded(job)
     IN /\ emitted' = emitted \o items
        /\ outcome' = LogTags(outcome, items)
        /\ jobs' = [jobs EXCEPT ![<<m.b, m.k>>] = JobAfterInsert(job)]
        /\ m' = [m EXCEPT
                   !.cnt = m.cnt + job.cnt,
                   !.test = BitAnd(m.test, job.test),
                   !.k = IF m.k + 1 = conf.jobs THEN 0 ELSE m.k + 1,
                   !.b = IF m.k + 1 = conf.jobs /\ conf.jobs > 1
                           THEN 1 - m.b ELSE m.b,
                   !.pc = IF m.k + 1 < conf.jobs THEN "insert"
                          ELSE IF conf.jobs > 1 THEN "join" ELSE "check"]
  /\ UNCHANGED <<gate, walk, conf, src, input, ht, lp0, glog, pos, errno, thr, stop, run,
                 prev, fault>>

\* read_lines, one turn of the join loop after process_lines: a slot marked
\* running is joined (pthread_join returns once its thread has returned)
\* and unmarked.
\* (JoinSkipped: a loop that unmarks the slot without pthread_join.)
JoinSkipped ==
  /\ m.pc = "join"
  /\ jobs' = [jobs EXCEPT ![<<m.b, m.k>>].running = 0]
  /\ m' = IF m.k + 1 = conf.jobs
            THEN [m EXCEPT !.pc = "check", !.k = 0]
            ELSE [m EXCEPT !.k = m.k + 1]
  /\ UNCHANGED <<gate, walk, conf, src, input, ht, lp0, glog, pos, errno, thr,
                 stop, emitted, outcome, run, prev, fault>>
Join ==
  /\ m.pc = "join"
  /\ LET job == jobs[<<m.b, m.k>>]
     IN IF job.running # 0
          THEN /\ thr[m.k].st = "fin"
               /\ thr' = [thr EXCEPT ![m.k].st = "joined"]
               /\ jobs' = [jobs EXCEPT ![<<m.b, m.k>>].running = 0]
          ELSE UNCHANGED <<thr, jobs>>
  /\ m' = IF m.k + 1 = conf.jobs
            THEN [m EXCEPT !.pc = "check", !.k = 0]
            ELSE [m EXCEPT !.k = m.k + 1]
  /\ UNCHANGED <<gate, walk, conf, src, input, ht, lp0, glog, pos, errno, stop, emitted,
                 outcome, run, prev, fault>>

\* read_lines, the tail of its loop: the dry-run limit, SIGINT, end of
\* file; otherwise b is flipped and the next block is read.
\* (LeaveLoopNoSigint: the loop without its stop_processing test.)
LeaveLoopNoSigint == (conf.dry_run /\ m.cnt >= NUM_TESTS) \/ ~m.s
LeaveLoop == (conf.dry_run /\ m.cnt >= NUM_TESTS) \/ stop \/ ~m.s
Check ==
  /\ m.pc = "check"
  /\ m' = IF LeaveLoop
            THEN [m EXCEPT !.pc = "drain", !.b = 0, !.k = 0]
            ELSE [m EXCEPT !.pc = "fill",
                           !.b = IF conf.jobs > 1 THEN 1 - m.b ELSE m.b]
  /\ UNCHANGED <<gate, walk, conf, src, input, ht, lp0, glog, pos, errno, jobs, thr, stop,
                 emitted, outcome, run, prev, fault>>

\* read_lines, the drain after the loop, slot k of block b: a slot still
\* marked running is joined, a slot with lines (p > 0) goes through
\* process_lines_thread and the same resets as in process_lines.
Drain ==
  /\ m.pc = "drain"
  /\ LET bk == <<m.b, m.k>>
         job == jobs[bk]
         joins == conf.jobs > 1 /\ job.running # 0
         job1 == IF joins THEN [job EXCEPT !.running = 0] ELSE job
         items == IF job.p > 0 THEN ChunkHanded(job) ELSE <<>>
         last == m.k + 1 = conf.jobs
     IN /\ joins => thr[m.k].st = "fin"
        /\ thr' = IF joins THEN [thr EXCEPT ![m.k].st = "joined"] ELSE thr
        /\ emitted' = emitted \o items
        /\ outcome' = LogTags(outcome, items)
        /\ jobs' = [jobs EXCEPT ![bk] =
                      IF job.p > 0 THEN JobAfterInsert(job1) ELSE job1]
        /\ m' = [m EXCEPT
                   !.cnt = IF job.p > 0 THEN m.cnt + job.cnt ELSE m.cnt,
                   !.test = IF job.p > 0 THEN BitAnd(m.test, job.test) ELSE m.test,
                   !.k = IF last THEN 0 ELSE m.k + 1,
                   !.b = IF last THEN m.b + 1 ELSE m.b,
                   !.pc = IF last /\ m.b = 1 THEN "ret" ELSE "drain"]
  /\ UNCHANGED <<gate, walk, conf, src, input, ht, lp0, glog, pos, errno, stop, run, prev, fault>>

\* The value read_lines returns: 0 for a pipe that ran dry before the test
\* could decide, else test.
ReadLinesResult ==
  IF ~m.s /\ errno = "EAGAIN" /\ m.test # 0 /\ m.cnt < conf.num_tests
    THEN 0 ELSE m.test

\* persist_last_parse: the record written for the log, if any. A file with
\* an inode and a size gets line and snippet set first; a pipe stores
\* glog->lp as it is; an empty file stores nothing.
PersistedLp ==
  IF glog.inode # 0 /\ glog.size # 0
    THEN [glog.lp EXCEPT !.line = glog.read, !.snippet = glog.snippet]
    ELSE glog.lp
Persists == (glog.inode # 0 /\ glog.size # 0) \/ glog.inode = 0

\* read_lines returns (free_jobs, the return value) and read_log ends: a
\* non-zero result is passed on, otherwise persist_last_parse runs.
Return ==
  /\ m.pc = "ret"
  /\ LET ret == ReadLinesResult
     IN IF ret # 0
          THEN /\ m' = [m EXCEPT !.pc = "done", !.ret = 1]
               /\ UNCHANGED <<glog, ht>>
          ELSE /\ m' = [m EXCEPT !.pc = "done", !.ret = 0,
                                 !.persisted = Persists]
               /\ glog' = IF Persists THEN [glog EXCEPT !.lp = PersistedLp]
                          ELSE glog
               /\ ht' = IF Persists THEN PersistedLp ELSE ht
  /\ UNCHANGED <<gate, walk, conf, src, input, lp0, pos, errno, jobs, thr, stop, emitted,
                 outcome, run, prev, fault>>

\* SIGINT: the handler sets conf.stop_processing, at any time.
Sigint ==
  /\ m.pc \notin {"open", "done"}
  /\ ~stop
  /\ stop' = TRUE
  /\ UNCHANGED <<gate, walk, conf, src, input, ht, lp0, glog, pos, errno, m, jobs, thr,
                 emitted, outcome, run, prev, fault>>

\* The program is run again on the same log with the same configuration:
\* a fresh process, the stored LastParse kept.
NextRun ==
  /\ m.pc = "done"
  /\ run < MaxRuns
  /\ run' = run + 1
  /\ prev' = [persisted |-> m.persisted, calls |-> Len(emitted),
              complete |-> ~stop /\ pos = Len(input)]
  /\ lp0' = ht
  /\ glog' = NewGLog
  /\ pos' = 0
  /\ errno' = "0"
  /\ m' = NewMain
  /\ jobs' = [bk \in Blocks \X Slots |-> NewJob(0)]
  /\ thr' = [k \in Slots |-> NoThread]
  /\ stop' = FALSE
  /\ emitted' = <<>>
  /\ outcome' = [n \in 1..Len(input) |-> {}]
  /\ fault' = {}
  /\ UNCHANGED <<gate, walk, conf, src, input, ht>>

\* --------------------------------------------------------- worker threads
\* read_lines_thread on slot k. Its steps on line i of the chunk: parse_line
\* up to the write of glog->lp.ts (WorkerParse), the rest of parse_line
\* (WorkerGate), and the plain, unsynchronised glog->read++ of read_line as
\* a load (WorkerLoad) and a store (WorkerStore), which also stores the item
\* in logitems[i].
Running(k) == thr[k].st = "run"
JobOf(k) == jobs[<<thr[k].blk, k>>]
LineOf(k) == JobOf(k).lines[thr[k].i]

\* What read_line does once parse_line returned ret with item it, tl being
\* the tail of read_line: the job's test and cnt, then either on to
\* glog->read++ or, for a soft-ignored line and for the abort of the format
\* test, NULL in logitems[i].
AfterTail(k, it, tl) ==
  IF tl.count
    THEN /\ thr' = [thr EXCEPT ![k].ph = "load", ![k].it = it]
         /\ jobs' = [jobs EXCEPT ![<<thr[k].blk, k>>].test = tl.test,
                                 ![<<thr[k].blk, k>>].cnt = tl.cnt]
    ELSE /\ thr' = [thr EXCEPT ![k].ph = "parse", ![k].it = NullItem,
                               ![k].i = thr[k].i + 1]
         /\ jobs' = [jobs EXCEPT ![<<thr[k].blk, k>>].test = tl.test,
                                 ![<<thr[k].blk, k>>].cnt = tl.cnt,
                                 ![<<thr[k].blk, k>>].parsed = @ + 1,
                                 ![<<thr[k].blk, k>>].logitems[thr[k].i] = NullItem]
AfterParseLine(k, ret, it) ==
  AfterTail(k, it, ReadLineTail(ret, JobOf(k).test, JobOf(k).cnt, conf))

WorkerParseApply(k, n, r) ==
  /\ glog' = r.g
  /\ outcome' = AddTags(outcome, n, r.tags)
  /\ IF r.next = "done"
       THEN AfterParseLine(k, r.ret, r.item)
       ELSE /\ thr' = [thr EXCEPT ![k].ph = r.next, ![k].it = r.item]
            /\ jobs' = jobs
WorkerParse(k) ==
  /\ Running(k)
  /\ thr[k].ph = "parse"
  /\ thr[k].i <= JobOf(k).p
  /\ WorkerParseApply(k, LineOf(k),
                      ParseLine1(glog, input[LineOf(k)], LineOf(k), conf, ht))
  /\ UNCHANGED <<gate, walk, conf, src, input, ht, lp0, pos, errno, m, stop, emitted, run,
                 prev, fault>>

WorkerGateApply(k, n, r) ==
  /\ outcome' = AddTags(outcome, n, r.tags)
  /\ AfterParseLine(k, r.ret, r.item)
WorkerGate(k) ==
  /\ Running(k)
  /\ thr[k].ph \in {"gate", "igate"}
  /\ WorkerGateApply(k, LineOf(k),
                     ParseLine2(glog, thr[k].it, input[LineOf(k)], conf, ht,
                                thr[k].ph))
  /\ UNCHANGED <<gate, walk, conf, src, input, ht, lp0, glog, pos, errno, m, stop, emitted,
                 run, prev, fault>>

WorkerLoad(k) ==
  /\ Running(k)
  /\ thr[k].ph = "load"
  /\ thr' = [thr EXCEPT ![k].ph = "store", ![k].tmp = glog.read]
  /\ UNCHANGED <<gate, walk, conf, src, input, ht, lp0, glog, pos, errno, m, jobs, stop,
                 emitted, outcome, run, prev, fault>>

WorkerStore(k) ==
  /\ Running(k)
  /\ thr[k].ph = "store"
  /\ glog' = [glog EXCEPT !.read = thr[k].tmp + 1]
  /\ jobs' = [jobs EXCEPT ![<<thr[k].blk, k>>].logitems[thr[k].i] = thr[k].it,
                          ![<<thr[k].blk, k>>].parsed = @ + 1]
  /\ thr' = [thr EXCEPT ![k].ph = "parse", ![k].it = NullItem, ![k].tmp = 0,
                        ![k].i = thr[k].i + 1]
  /\ UNCHANGED <<gate, walk, conf, src, input, ht, lp0, pos, errno, m, stop, emitted,
                 outcome, run, prev, fault>>

\* read_lines_thread returns after the last line of the chunk.
WorkerExit(k) ==
  /\ Running(k)
  /\ thr[k].ph = "parse"
  /\ thr[k].i > JobOf(k).p
  /\ thr' = [thr EXCEPT ![k].st = "fin"]
  /\ UNCHANGED <<gate, walk, conf, src, input, ht, lp0, glog, pos, errno, m, jobs, stop,
                 emitted, outcome, run, prev, fault>>

Worker ==
  \E k \in Slots :
    \/ WorkerParse(k)
    \/ WorkerGate(k)
    \/ WorkerLoad(k)
    \/ WorkerStore(k)
    \/ WorkerExit(k)

\* ------------------------------------------------- thread creation fails
\* pthread_create fails (EAGAIN: no resources): read_lines does not look at
\* its result. The slot was marked running before the call; threads[k] is
\* not written and keeps naming what it named before.
PthreadCreateFails ==
  /\ m.pc = "spawn"
  /\ conf.jobs > 1
  /\ jobs' = [jobs EXCEPT ![<<m.b, m.k>>].running = 1]
  /\ fault' = fault \cup {<<m.b, m.k>>}
  /\ m' = IF m.k + 1 = conf.jobs
            THEN [m EXCEPT !.pc = "insert", !.k = 0, !.b = 1 - m.b]
            ELSE [m EXCEPT !.k = m.k + 1]
  /\ UNCHANGED <<gate, walk, conf, src, input, ht, lp0, glog, pos, errno, thr, stop,
                 emitted, outcome, run, prev>>

\* pthread_join on a handle that names no joinable thread (never written,
\* or already joined) is undefined: it returns an error at once, which
\* read_lines ignores, or the process dies.
JoinStale ==
  /\ m.pc = "join"
  /\ jobs[<<m.b, m.k>>].running # 0
  /\ thr[m.k].st \in {"none", "joined"}
  /\ \/ /\ jobs' = [jobs EXCEPT ![<<m.b, m.k>>].running = 0]
        /\ m' = IF m.k + 1 = conf.jobs
                  THEN [m EXCEPT !.pc = "check", !.k = 0]
                  ELSE [m EXCEPT !.k = m.k + 1]
     \/ /\ jobs' = jobs
        /\ m' = [m EXCEPT !.pc = "crashed"]
  /\ UNCHANGED <<gate, walk, conf, src, input, ht, lp0, glog, pos, errno, thr, stop,
                 emitted, outcome, run, prev, fault>>

\* process_lines_thread reading an item that was freed (a slot no worker
\* rewrote) is undefined: Insert and Drain show the call being made on the
\* freed item, this action the process dying.
InsertStaleCrash ==
  /\ m.pc \in {"insert", "drain"}
  /\ \E i \in 1..jobs[<<m.b, m.k>>].p : jobs[<<m.b, m.k>>].logitems[i].freed
  /\ m' = [m EXCEPT !.pc = "crashed"]
  /\ UNCHANGED <<gate, walk, conf, src, input, ht, lp0, glog, pos, errno, jobs, thr, stop,
                 emitted, outcome, run, prev, fault>>

\* ---------------------------------------------------------- specification
Next ==
  \/ Open
  \/ SniffLine
  \/ SniffEnd
  \/ ReadBlock
  \/ SpawnInline
  \/ PthreadCreate
  \/ Insert
  \/ Join
  \/ Check
  \/ Drain
  \/ Return
  \/ Worker
  \/ Sigint

FileSrc == [inode |-> 7, snippet |-> <<1, 2>>, eagain |-> FALSE]
PipeSrc(eagain) == [inode |-> 0, snippet |-> <<>>, eagain |-> eagain]

\* The main specification: one run over a file, every shape of the pipeline
\* (jobs, chunk size, sniff length, dry run), a few kinds of line.
Confs ==
  [jobs : 1..MaxJobs, chunk_size : 1..MaxChunk, num_tests : 0..MaxTests,
   restore : {FALSE}, dry_run : BOOLEAN, no_strict_status : {FALSE}]
Palette == {LComment, LNoReq, LOk1}
Init == InitWith(Confs, {FileSrc}, SeqsUpTo(Palette, MaxLines), {NoLastParse})
Spec == Init /\ [][Next]_vars

\* Lines with and without the required fields, in short inputs: one run
\* over a file.
ConfsLines ==
  [jobs : 1..MaxJobs, chunk_size : {1}, num_tests : 0..1,
   restore : {FALSE}, dry_run : {FALSE}, no_strict_status : {FALSE}]
PaletteLines == {LBadFmt, LNoHost, LNoDate, LNoReq, LOk1}
InitLines ==
  InitWith(ConfsLines, {FileSrc}, SeqsUpTo(PaletteLines, MaxShort), {NoLastParse})
SpecLines == InitLines /\ [][Next]_vars

\* Lines by what parse_line makes of them once the fields are there: the
\* %s token in strict and lax mode, the ignore levels, the timestamp.
ConfsStatus ==
  [jobs : 1..MaxJobs, chunk_size : {1}, num_tests : 0..1,
   restore : {FALSE}, dry_run : {FALSE}, no_strict_status : BOOLEAN]
PaletteStatus ==
  {LComment, LOk1, LOk3, LMinus1, LNegStatus, LOddStatus, LBadStatus, LPanel}
InitStatus ==
  InitWith(ConfsStatus, {FileSrc}, SeqsUpTo(PaletteStatus, MaxShort),
           {NoLastParse})
SpecStatus == InitStatus /\ [][Next]_vars

\* --restore: a file or a pipe read in two runs of the program, starting
\* with nothing stored or with the LastParse of an earlier, shorter log.
ConfsRestore ==
  [jobs : 1..MaxJobs, chunk_size : {1}, num_tests : 0..1,
   restore : {TRUE}, dry_run : {FALSE}, no_strict_status : {FALSE}]
PaletteRestore == {LBadFmt, LOk1, LOk2, LEpoch}
StoresRestore ==
  {NoLastParse, [ts |-> 1, line |-> 1, size |-> 1, snippet |-> <<1, 2>>]}
InitRestore ==
  InitWith(ConfsRestore, {FileSrc, PipeSrc(FALSE), PipeSrc(TRUE)},
           SeqsUpTo(PaletteRestore, MaxLines), StoresRestore)
NextRestore == Next \/ NextRun
SpecRestore == InitRestore /\ [][NextRestore]_vars

\* Thread creation may fail.
ConfsFault ==
  [jobs : 1..MaxJobs, chunk_size : {1}, num_tests : 0..1,
   restore : {FALSE}, dry_run : {FALSE}, no_strict_status : {FALSE}]
InitFault ==
  InitWith(ConfsFault, {FileSrc}, SeqsUpTo({LBadFmt, LOk1}, MaxLines + 2),
           {NoLastParse})
NextFault == Next \/ PthreadCreateFails \/ JoinStale \/ InsertStaleCrash
SpecFault == InitFault /\ [][NextFault]_vars

\* ================================================================ claims
EmittedLines == [i \in 1..Len(emitted) |-> emitted[i].line]

\* C1: the process_log calls of one run (sniff, process_lines in the loop
\* and the drain together) are made in input-line order: a call for an
\* earlier line comes before the call for a later line.
C1_InputOrder ==
  \A i, j \in 1..Len(emitted) : i < j => emitted[i].line < emitted[j].line

\* C1 witness: two workers, a sniffed line and lines of two blocks, three
\* calls made.
C1_Witness ==
  /\ conf.jobs = 2 /\ conf.chunk_size = 1 /\ conf.num_tests = 1
  /\ m.pc = "done"
  /\ Len(emitted) = 3

\* parse_line found the line well-formed: the directive walk returned 0 and
\* no required field is missing.
WalkOk(ln) == parse_format(ln, 0, conf).ret = 0
ParsedOk(ln) ==
  /\ ~valid_line(ln)
  /\ WalkOk(ln)
  /\ ~verify_missing_fields(parse_format(ln, 0, conf).item).errstr

\* C3: every item handed to process_log has host, date and req and no
\* errstr; a line whose directive walk failed or that lacks host, date or
\* req is never handed to process_log.
C3_EmittedComplete ==
  /\ \A i \in 1..Len(emitted) :
       emitted[i].host /\ emitted[i].date /\ emitted[i].req /\ ~emitted[i].errstr
  /\ \A n \in 1..Len(input) :
       (~WalkOk(input[n]) \/ ~input[n].host \/ ~input[n].date \/ ~input[n].req)
         => "log" \notin outcome[n]

\* C3 witness: a run with workers in which a line without request was
\* counted invalid and another line was handed to process_log.
C3_Witness ==
  /\ conf.jobs = 2
  /\ emitted # <<>>
  /\ \E n \in 1..Len(input) :
       WalkOk(input[n]) /\ ~input[n].req /\ "invalid" \in outcome[n]

\* C4: every item handed to process_log has status >= -1.
C4_StatusAtLeastMinus1 ==
  \A i \in 1..Len(emitted) : emitted[i].status >= -1

\* C5: when a run ends normally, every line read by read_lines had exactly
\* one outcome: handed to process_log, counted invalid, ignored, or dropped
\* by the resume gate.
C5_ExactlyOneOutcome ==
  (m.pc = "done" /\ m.ret = 0) =>
    \A n \in 1..pos : Cardinality(outcome[n]) = 1

\* C7: a chunk goes to process_lines_thread only when every line read into
\* it has been parsed; when read_lines has left its loop and returns, no
\* chunk holds lines, no worker is unjoined and every item a parser
\* returned has been through process_log; once the loop is left no line is
\* read, and a Check that sees stop_processing does not go on to read.
C7_ChunkParsedBeforeInsert ==
  m.pc \in {"insert", "drain"} =>
    jobs[<<m.b, m.k>>].parsed = jobs[<<m.b, m.k>>].p
C7_AllDrainedAtReturn ==
  (m.pc \in {"ret", "done"} /\ m.ret = 0) =>
    /\ \A bk \in Blocks \X Slots :
         /\ jobs[bk].p = 0
         /\ jobs[bk].running = 0
         /\ \A i \in 1..conf.chunk_size :
              jobs[bk].logitems[i].null \/ jobs[bk].logitems[i].freed
    /\ \A k \in Slots : thr[k].st \in {"none", "joined"}
C7_NoReadAfterLoop ==
  /\ (m.pc \in {"drain", "ret", "done"}) => pos' = pos
  /\ (m.pc = "check" /\ stop) => m'.pc # "fill"
C7_LeavingLoopDrains ==
  /\ [](C7_ChunkParsedBeforeInsert /\ C7_AllDrainedAtReturn)
  /\ [][C7_NoReadAfterLoop]_vars

\* C7 witness: SIGINT made a run with workers stop with lines left unread,
\* after items had been handed on.
C7_Witness ==
  /\ conf.jobs = 2
  /\ m.pc = "done" /\ m.ret = 0
  /\ stop
  /\ 0 < pos /\ pos < Len(input)
  /\ emitted # <<>>

SeqStep(st, r) ==
  [g |-> r.g, n |-> st.n + 1, test |-> r.test, cnt |-> r.cnt,
   em |-> IF Handed(r.item) THEN Append(st.em, r.item.line) ELSE st.em]
SeqSniffLine(st) ==
  SeqStep(st, read_line(st.g, input[st.n], st.n, st.test, st.cnt, conf, lp0))
SeqPipeLine(st) ==
  SeqStep(st, read_line(st.g, input[st.n], st.n, 0, 0, conf, lp0))
RECURSIVE SeqSniff(_)
SeqSniff(st) ==
  IF st.cnt < conf.num_tests /\ st.n <= Len(input)
    THEN SeqSniff(SeqSniffLine(st)) ELSE st
RECURSIVE SeqPipe(_)
SeqPipe(st) == IF st.n > Len(input) THEN st ELSE SeqPipe(SeqPipeLine(st))
SeqAfterSniff(st) == IF st.test # 0 THEN st ELSE SeqPipe(st)
SeqStart ==
  [g |-> OpenedGLog(NewGLog), n |-> 1, test |-> InitialTest, cnt |-> 0,
   em |-> <<>>]
SeqEnd ==
  IF conf.num_tests > 0 THEN SeqAfterSniff(SeqSniff(SeqStart))
  ELSE SeqPipe(SeqStart)
SeqEmitted == SeqEnd.em

\* How often each line occurs in a sequence of line numbers.
LineCount(seq) ==
  [n \in 1..Len(input) |-> Cardinality({i \in 1..Len(seq) : seq[i] = n})]

\* The one-job run of the model is the sequential run.
OneJobIsSequential ==
  (m.pc = "done" /\ ~stop /\ conf.jobs = 1) => EmittedLines = SeqEmitted

\* C2: for the same input, configuration and stored LastParse, a run that
\* reads the whole log hands the same multiset of lines to process_log
\* whatever conf.jobs is and however the workers interleave: the multiset
\* of the one-job run.
C2_SameMultisetAsOneJob ==
  (m.pc = "done" /\ ~stop) => LineCount(EmittedLines) = LineCount(SeqEmitted)

\* C6: with --restore, when the previous run read the whole file and stored
\* its LastParse, the run over the unchanged file makes no process_log call.
C6_SecondRunMakesNoCall ==
  (run > 1 /\ conf.restore /\ src.inode # 0 /\ prev.persisted /\ prev.complete)
    => emitted = <<>>

\* C9: a pipe whose read failed with EAGAIN before any line parsed and
\* before conf.num_tests lines were tested makes read_lines return 0.
C9_DryPipeReturnsZero ==
  (/\ m.pc = "done"
   /\ src.inode = 0
   /\ errno = "EAGAIN"
   /\ conf.num_tests > 0
   /\ m.icnt < conf.num_tests
   /\ \A n \in 1..pos : ~ParsedOk(input[n]))
    => m.ret = 0

\* C10: a failed pthread_create ends the run fatally: its slot is not
\* marked running and read_lines does not go on.
C10_FailedCreateIsFatal ==
  \A bk \in fault : jobs[bk].running = 0 /\ m.pc = "fatal"

\* The sniff cleared the test flag: some line it consumed was well-formed.
SniffPassed == \E n \in 1..m.sniffed : ParsedOk(input[n])

C12_PersistsFinalState ==
  /\ (m.pc = "done" /\ m.ret = 0 /\ ~stop /\ src.inode # 0 /\ FileSize > 0) =>
       /\ m.persisted
       /\ ht.line = SeqEnd.g.read
       /\ ht.size = FileSize
       /\ ht.snippet = src.snippet
  /\ (m.pc = "done" /\ m.ret # 0) => (~m.persisted /\ ht = lp0)

\* The same for one job only.
OneJobPersistsFinalState == conf.jobs = 1 => C12_PersistsFinalState

\* ------------------------------------------------------ the directive walk
\* parse_format in detail, for the directives whose tokens the claims below
\* look at. A token is the sequence of its characters. A directive of the
\* walk pairs the specifier with what the line holds at that point: at is
\* "eol" when the line is exhausted (*str == '\0'), "nul" when parse_string
\* finds no delimiter and returns NULL, "tok" when it returns tkn.
Directive(spec, at, tkn) == [spec |-> spec, at |-> at, tkn |-> tkn]

\* A char * field of the item: NULL, or a string.
NullStr == [null |-> TRUE, s |-> <<>>]
Str(s) == [null |-> FALSE, s |-> s]

\* The fields of the GLogItem the walk fills; host and date are those of
\* the directives in front of the ones looked at.
WalkItem(host, date) ==
  [host |-> host, date |-> date, req |-> NullStr, serve_time |-> 0,
   errstr |-> FALSE]

\* spec_err: sets errstr; every code it returns is non-zero.
spec_err(it) == [item |-> [it EXCEPT !.errstr = TRUE], ret |-> 1]

DigitChars == <<"0", "1", "2", "3", "4", "5", "6", "7", "8", "9">>
Digits == {DigitChars[i] : i \in 1..Len(DigitChars)}
DigitVal(c) == (CHOOSE i \in 1..Len(DigitChars) : DigitChars[i] = c) - 1

\* The digits of t from position i: their value after acc, and the position
\* of the first character that is no digit.
RECURSIVE ScanDigits(_, _, _)
ScanDigits(t, i, acc) ==
  IF i <= Len(t) /\ t[i] \in Digits /\ acc >= 0
    THEN ScanDigits(t, i + 1, acc * 10 + DigitVal(t[i]))
    ELSE [val |-> acc, end |-> i]

\* strtoull (tkn, &bEnd, 10) for a token with no sign and no leading blank
\* (parsed_string trims it): val, and end = the position of bEnd (1 is tkn).
strtoull(t) == ScanDigits(t, 1, 0)

\* strtod (tkn, &bEnd) for a token of digits with at most one point: the
\* nearest double, and the position of bEnd. num is the digits read with
\* the point left out, dec the number of digits after the point.
PowTen(n) == 10 ^ n
StrtodFrac(a, b) ==
  IF b.end = 2 THEN [val |-> DZero, end |-> 1, num |-> 0, dec |-> 0]
  ELSE [val |-> DDiv(b.val, PowTen(b.end - a.end - 1)), end |-> b.end,
        num |-> b.val, dec |-> b.end - a.end - 1]
StrtodInt(t, a) ==
  IF a.end <= Len(t) /\ t[a.end] = "."
    THEN StrtodFrac(a, ScanDigits(t, a.end + 1, a.val))
    ELSE [val |-> DDiv(a.val, 1), end |-> a.end, num |-> a.val, dec |-> 0]
strtod(t) == StrtodInt(t, ScanDigits(t, 1, 0))

\* tkn == bEnd || *bEnd != '\0' (errno == ERANGE needs more digits than the
\* tokens here have).
BadNumber(t, r) == r.end = 1 \/ r.end <= Len(t)

\* parse_specifier, cases 'L', 'T', 'D', 'n': the value assigned to
\* logitem->serve_time. serve_secs is a double, serve_time a uint64_t.
ServeSecsL(t, r) == IF BadNumber(t, r) THEN DZero ELSE DDiv(r.val, 1)
ServeSecsT(t) ==
  IF \E i \in 1..Len(t) : t[i] = "."
    THEN (IF BadNumber(t, strtod(t)) THEN DZero ELSE strtod(t).val)
    ELSE ServeSecsL(t, strtoull(t))
ServeUsecs(t, r) == IF BadNumber(t, r) THEN 0 ELSE r.val
PositiveTimes(x, prod) == IF x.m # <<>> THEN DToU64(prod) ELSE 0
ServeTimeL(x) == PositiveTimes(x, DMulMILS(x))
ServeTimeT(x) == PositiveTimes(x, DMulSECS(x))
ServeTime(spec, t) ==
  CASE spec = "L" -> ServeTimeL(ServeSecsL(t, strtoull(t)))
    [] spec = "T" -> ServeTimeT(ServeSecsT(t))
    [] spec = "D" -> ServeUsecs(t, strtoull(t))
    [] spec = "n" -> ServeUsecs(t, strtoull(t)) \div 1000

\* The four cases: a serve time already set skips the token
\* (handle_default_case_token); a NULL token is an error.
ServeSpecs == {"L", "T", "D", "n"}
ParseServeTime(it, d) ==
  IF it.serve_time # 0 THEN [item |-> it, ret |-> 0]
  ELSE IF d.at = "nul" THEN spec_err(it)
  ELSE [item |-> [it EXCEPT !.serve_time = ServeTime(d.spec, d.tkn)],
        ret |-> 0]

\* p is what t holds from position i on (strncasecmp over the length of p,
\* for tokens in upper case).
PrefixAt(p, t, i) ==
  /\ i + Len(p) - 1 <= Len(t)
  /\ \A j \in 1..Len(p) : t[i + j - 1] = p[j]

\* http_methods and http_protocols are tables of another file: one entry of
\* each.
HttpMethods == {<<"G", "E", "T">>}
HttpProtocols == {<<"H", "T", "T", "P", "/", "1">>}

\* extract_method, extract_protocol: the table entry the text starts with,
\* or NULL (the empty sequence).
extract_method(t) ==
  IF \E e \in HttpMethods : PrefixAt(e, t, 1)
    THEN CHOOSE e \in HttpMethods : PrefixAt(e, t, 1) ELSE <<>>
extract_protocol(t, i) ==
  IF \E e \in HttpProtocols : PrefixAt(e, t, i)
    THEN CHOOSE e \in HttpProtocols : PrefixAt(e, t, i) ELSE <<>>

\* strrchr (req, ' ') for req = t + from - 1: the position of the last
\* blank, 0 for NULL.
LastBlank(t, from) ==
  IF \E i \in from..Len(t) : t[i] = " "
    THEN CHOOSE i \in from..Len(t) :
           t[i] = " " /\ \A j \in (i + 1)..Len(t) : t[j] # " "
    ELSE 0

\* decode_url lives in another file. For a string with no escape in it, it
\* trims the blanks; an empty result is NULL.
RECURSIVE TrimLeft(_)
TrimLeft(s) == IF s # <<>> /\ Head(s) = " " THEN TrimLeft(Tail(s)) ELSE s
RECURSIVE TrimRight(_)
TrimRight(s) ==
  IF s # <<>> /\ s[Len(s)] = " " THEN TrimRight(SubSeq(s, 1, Len(s) - 1))
  ELSE s
decode_url(s) ==
  IF TrimRight(TrimLeft(s)) = <<>> THEN NullStr ELSE Str(TrimRight(TrimLeft(s)))

\* parse_req: without a method the whole line is the request; with one, the
\* request is what lies between the byte after the method and the last
\* blank, and "-" when no protocol follows that blank or nothing lies
\* between. The decoded request is returned unless it is NULL or empty.
Dash == <<"-">>
Decoded(request, dreq) ==
  IF dreq.null \/ dreq.s = <<>> THEN request ELSE dreq.s
RequestBetween(line, meth, ptr) ==
  IF ptr = 0 \/ extract_protocol(line, ptr + 1) = <<>> THEN Dash
  ELSE IF ptr - Len(meth) - 1 <= 0 THEN Dash
  ELSE Decoded(SubSeq(line, Len(meth) + 2, ptr),
               decode_url(SubSeq(line, Len(meth) + 2, ptr)))
parse_req(line) ==
  IF extract_method(line) = <<>> THEN Decoded(line, decode_url(line))
  ELSE RequestBetween(line, extract_method(line),
                      LastBlank(line, Len(extract_method(line)) + 1))

\* parse_specifier, case 'r': a request already set skips the token; a NULL
\* token is an error; otherwise the request is what parse_req returns.
ParseRequest(it, d) ==
  IF ~it.req.null THEN [item |-> it, ret |-> 0]
  ELSE IF d.at = "nul" THEN spec_err(it)
  ELSE [item |-> [it EXCEPT !.req = Str(parse_req(d.tkn))], ret |-> 0]

\* invalid_ipaddr lives in another file: the addresses here are the
\* one-character strings "1" and "2".
ValidIps == {<<"1">>, <<"2">>}
invalid_ipaddr(tkn) == tkn \notin ValidIps

\* trim_str, as parsed_string applies it to every token.
trim_str(s) == TrimRight(TrimLeft(s))

\* strcspn (t + i - 1, skips): the length of the run of bytes from position
\* i that are not in skips.
InSkips(c, skips) == \E k \in 1..Len(skips) : skips[k] = c
RECURSIVE Strcspn(_, _, _)
Strcspn(t, i, skips) ==
  IF i > Len(t) \/ InSkips(t[i], skips) THEN 0
  ELSE 1 + Strcspn(t, i + 1, skips)

\* set_xff_host: the loop from position i of str (ptr and str move
\* together), idx reject bytes crossed since the last token, the host so
\* far. seen is history: the tokens handed to invalid_ipaddr.
\* XffTake is the body from invalid_ipaddr on, for the token tkn of length
\* len.
\* (XffTakeLast: every address found replaces the host.)
RECURSIVE XffLoop(_, _, _, _, _, _, _)
XffTakeLast(t, skips, out, i, len, host, seen, tkn) ==
  IF ~host.null /\ invalid_ipaddr(tkn)
    THEN [host |-> host, seen |-> Append(seen, tkn)]
  ELSE IF ~invalid_ipaddr(tkn) /\ out
    THEN [host |-> Str(tkn), seen |-> Append(seen, tkn)]
  ELSE XffLoop(t, skips, out, i + len, 0,
               IF ~invalid_ipaddr(tkn) THEN Str(tkn) ELSE host,
               Append(seen, tkn))
XffTake(t, skips, out, i, len, host, seen, tkn) ==
  IF ~host.null /\ invalid_ipaddr(tkn)
    THEN [host |-> host, seen |-> Append(seen, tkn)]
  ELSE IF (~host.null \/ ~invalid_ipaddr(tkn)) /\ out
    THEN [host |-> IF host.null THEN Str(tkn) ELSE host,
          seen |-> Append(seen, tkn)]
  ELSE XffLoop(t, skips, out, i + len, 0,
               IF host.null /\ ~invalid_ipaddr(tkn) THEN Str(tkn) ELSE host,
               Append(seen, tkn))
XffToken(t, skips, out, i, len, host, seen) ==
  XffTake(t, skips, out, i, len, host, seen,
          trim_str(SubSeq(t, i, i + len - 1)))
XffLoop(t, skips, out, i, idx, host, seen) ==
  IF i > Len(t) THEN [host |-> host, seen |-> seen]
  ELSE IF InSkips(t[i], skips)
    THEN XffLoop(t, skips, out, i + 1, idx + 1, host, seen)
  ELSE IF idx < Len(skips) /\ ~host.null THEN [host |-> host, seen |-> seen]
  ELSE XffToken(t, skips, out, i, Strcspn(t, i, skips), host, seen)
set_xff_host(host, str, skips, out) == XffLoop(str, skips, out, 1, 0, host, <<>>)

\* parse_string (&str, pch, 1) for a one-byte delimiter that str holds,
\* with no backslash in str: the bytes in front of the first delimiter.
FirstAt(t, c) == CHOOSE i \in 1..Len(t) : t[i] = c /\ \A j \in 1..(i - 1) : t[j] # c
SliceToDelim(t, c) == trim_str(SubSeq(t, 1, FirstAt(t, c) - 1))

\* find_xff_host: d.skips is what extract_braces returns (empty for NULL),
\* d.delim the byte of the format behind the closing brace ("" for the
\* end of the format), d.tkn the line from *str on. When that byte is no
\* reject byte and the line holds it, the addresses are looked for in front
\* of it and the first one ends the search.
HardDelim(d) ==
  /\ d.delim # ""
  /\ ~InSkips(d.delim, d.skips)
  /\ \E i \in 1..Len(d.tkn) : d.tkn[i] = d.delim
XffField(d) == IF HardDelim(d) THEN SliceToDelim(d.tkn, d.delim) ELSE d.tkn
XffScan(host, d) == set_xff_host(host, XffField(d), d.skips, HardDelim(d))

\* special_specifier, case 'h': no reject set, or no host at the end, is an
\* error.
XffResult(it, host) ==
  IF host.null THEN spec_err(it)
  ELSE [item |-> [it EXCEPT !.host = host], ret |-> 0]
special_specifier(it, d) ==
  IF d.skips = <<>> THEN spec_err(it)
  ELSE XffResult(it, XffScan(it.host, d).host)

\* parse_specifier.
parse_specifier(it, d) ==
  CASE d.spec \in ServeSpecs -> ParseServeTime(it, d)
    [] d.spec = "r" -> ParseRequest(it, d)

\* One pass of parse_format's loop at a directive: an exhausted line is an
\* error (ERR_SPEC_LINE_INV), otherwise special_specifier runs for ~h and
\* parse_specifier for a % directive.
FormatAt(it, d) ==
  IF d.at = "eol" THEN spec_err(it)
  ELSE IF d.spec = "~h" THEN special_specifier(it, d)
  ELSE parse_specifier(it, d)

\* A walk about to start on the directives ds.
NewWalk(ds, it) ==
  [rest |-> ds, applied |-> <<>>, item |-> it, ret |-> 0, out |-> "walking"]
Walked(w, r) ==
  [w EXCEPT !.rest = Tail(w.rest), !.applied = Append(w.applied, Head(w.rest)),
            !.item = r.item, !.ret = r.ret]

\* parse_format reaches the next directive of the format.
ParseFormatStep ==
  /\ walk.out = "walking"
  /\ walk.ret = 0
  /\ walk.rest # <<>>
  /\ walk' = Walked(walk, FormatAt(walk.item, Head(walk.rest)))
  /\ UNCHANGED <<gate, conf, src, input, ht, lp0, glog, pos, errno, m, jobs,
                 thr, stop, emitted, outcome, run, prev, fault>>

\* parse_format returned: parse_line runs verify_missing_fields when the
\* walk succeeded, and the line is invalid if either reports an error.
RequiredOf(it) ==
  [init_log_item(0) EXCEPT !.host = ~it.host.null, !.date = it.date,
                           !.req = ~it.req.null, !.errstr = it.errstr]
WalkVerdict(w) ==
  IF w.ret # 0 \/ Verified([ret |-> w.ret, item |-> RequiredOf(w.item)]).errstr
    THEN "invalid" ELSE "valid"
ParseLineTail ==
  /\ walk.out = "walking"
  /\ walk.ret # 0 \/ walk.rest = <<>>
  /\ walk' = [walk EXCEPT !.out = WalkVerdict(walk)]
  /\ UNCHANGED <<gate, conf, src, input, ht, lp0, glog, pos, errno, m, jobs,
                 thr, stop, emitted, outcome, run, prev, fault>>

NextWalk == ParseFormatStep \/ ParseLineTail

\* One line, serve-time directives only, behind a host and a date.
MaxServe == 2      \* most serve-time directives in a format
ServeTokens ==
  {<<>>, <<"0">>, <<"7">>, <<"1", "5", "0", "0">>, <<"0", ".", "2", "5", "0">>,
   <<"1", ".", "0", "0", "1">>, <<"7", "x">>}
ServeDirectives ==
  {Directive(s, "tok", t) : s \in ServeSpecs, t \in ServeTokens}
    \cup {Directive(s, a, <<>>) : s \in ServeSpecs, a \in {"nul", "eol"}}
ConfWalk ==
  [jobs |-> 1, chunk_size |-> 1, num_tests |-> 0, restore |-> FALSE,
   dry_run |-> FALSE, no_strict_status |-> FALSE]
InitWalk(Walks) ==
  InitAll({ConfWalk}, {FileSrc}, {<<>>}, {NoLastParse}, Walks)
InitServe ==
  InitWalk({NewWalk(ds, WalkItem(Str(<<"h">>), TRUE)) :
              ds \in SeqsUpTo(ServeDirectives, MaxServe)})
SpecServe == InitServe /\ [][NextWalk]_vars

\* The microseconds the token of a serve-time directive stands for: ms *
\* 1000, s * 1000000, as is, ns / 1000; 0 where the directive has no
\* number to convert.
Microseconds(d, r) ==
  IF d.at # "tok" \/ BadNumber(d.tkn, r) THEN 0
  ELSE CASE d.spec = "L" -> IF r.dec = 0 THEN r.num * 1000 ELSE 0
         [] d.spec = "T" -> (r.num * 1000000) \div PowTen(r.dec)
         [] d.spec = "D" -> IF r.dec = 0 THEN r.num ELSE 0
         [] d.spec = "n" -> IF r.dec = 0 THEN r.num \div 1000 ELSE 0
RECURSIVE FirstNonZero(_, _)
FirstNonZero(ds, i) ==
  IF i > Len(ds) THEN 0
  ELSE IF Microseconds(ds[i], strtod(ds[i].tkn)) # 0
    THEN Microseconds(ds[i], strtod(ds[i].tkn))
  ELSE FirstNonZero(ds, i + 1)

\* C13: after any sequence of %L, %T, %D and %n directives the item's
\* serve_time is the microsecond value of the first directive whose value
\* is not zero, and later directives leave it alone.
C13_ServeTimeIsFirstNonZero ==
  walk.out # "none" => walk.item.serve_time = FirstNonZero(walk.applied, 1)
\* The same with the tokens that have a decimal point left aside.
NoPoint(ds) == \A i \in 1..Len(ds) : \A j \in 1..Len(ds[i].tkn) : ds[i].tkn[j] # "."
ServeTimeOfIntegersIsFirstNonZero ==
  (walk.out # "none" /\ NoPoint(walk.applied)) =>
    walk.item.serve_time = FirstNonZero(walk.applied, 1)

\* One line with %r, once or twice, behind a format that did or did not set
\* the host and the date.
MaxReq == 2        \* most %r directives in a format
ReqTokens ==
  {<<>>,
   <<"/", "x">>,
   <<"G", "E", "T", " ", "/", " ", "H", "T", "T", "P", "/", "1">>,
   <<"G", "E", "T", " ", "H", "T", "T", "P", "/", "1">>,
   <<"G", "E", "T", " ", "/", "x">>,
   <<"G", "E", "T", " ", " ", " ", "H", "T", "T", "P", "/", "1">>}
ReqDirectives ==
  {Directive("r", "tok", t) : t \in ReqTokens}
    \cup {Directive("r", a, <<>>) : a \in {"nul", "eol"}}
InitReq ==
  InitWalk({NewWalk(ds, WalkItem(h, dt)) :
              ds \in SeqsUpTo(ReqDirectives, MaxReq),
              h \in {NullStr, Str(<<"h">>)}, dt \in BOOLEAN})
SpecReq == InitReq /\ [][NextWalk]_vars

\* C14: when the token of %r is empty, the item's req is "-" and the line
\* is classified invalid.
EmptyRequestToken(w) ==
  /\ w.applied # <<>>
  /\ w.applied[1].spec = "r" /\ w.applied[1].at = "tok"
  /\ w.applied[1].tkn = <<>>
EmptyRequestIsKept ==
  EmptyRequestToken(walk) =>
    /\ walk.item.req = Str(<<>>)
    /\ (walk.out \in {"valid", "invalid"}) =>
         (walk.out = "valid" <=>
            (~walk.item.host.null /\ walk.item.date
               /\ \A i \in 1..Len(walk.applied) : walk.applied[i].at # "eol"))
\* parse_req on the palette.
RequestsParsed ==
  /\ parse_req(<<"/", "x">>) = <<"/", "x">>
  /\ parse_req(<<"G", "E", "T", " ", "/", " ", "H", "T", "T", "P", "/", "1">>)
       = <<"/">>
  /\ parse_req(<<"G", "E", "T", " ", "H", "T", "T", "P", "/", "1">>) = Dash
  /\ parse_req(<<"G", "E", "T", " ", "/", "x">>) = Dash
  /\ parse_req(<<"G", "E", "T", " ", " ", " ", "H", "T", "T", "P", "/", "1">>)
       = <<" ", " ">>

\* One line at the special host directive ~h{...}, once or twice.
MaxXff == 2        \* most ~h directives in a format
XffDirective(at, tkn, skips, delim) ==
  [spec |-> "~h", at |-> at, tkn |-> tkn, skips |-> skips, delim |-> delim]
XffExample == XffDirective("tok", <<"1", ",", " ", "2">>, <<",">>, "")
XffLines ==
  {<<"1", ",", " ", "2">>,
   <<"x", ",", "1", ",", "x", ",", "2">>,
   <<"x", ",", "x">>,
   <<"x", ",", "2", ",", "1", "\"", "x">>,
   <<" ", " ", "1", ",", " ", "2", " ">>,
   <<"x", "\"", "1">>}
XffDirectives ==
  {XffDirective("tok", t, s, c) :
     t \in XffLines, s \in {<<",">>, <<",", " ">>, <<>>}, c \in {"", "\""}}
    \cup {XffDirective("eol", <<>>, <<",">>, "")}
InitXff ==
  InitWalk({NewWalk(ds, WalkItem(NullStr, dt)) :
              ds \in SeqsUpTo(XffDirectives, MaxXff), dt \in BOOLEAN})
SpecXff == InitXff /\ [][NextWalk]_vars

\* The tokens of a field, as the reject set delimits them: the trimmed
\* runs of bytes outside the set, in order.
RECURSIVE RejectTokens(_, _, _)
RejectTokens(t, i, skips) ==
  IF i > Len(t) THEN <<>>
  ELSE IF InSkips(t[i], skips) THEN RejectTokens(t, i + 1, skips)
  ELSE <<trim_str(SubSeq(t, i, i + Strcspn(t, i, skips) - 1))>>
         \o RejectTokens(t, i + Strcspn(t, i, skips), skips)
FirstIp(tokens) ==
  IF \E k \in 1..Len(tokens) : tokens[k] \in ValidIps
    THEN Str(tokens[CHOOSE k \in 1..Len(tokens) :
                      /\ tokens[k] \in ValidIps
                      /\ \A j \in 1..(k - 1) : tokens[j] \notin ValidIps])
    ELSE NullStr
\* No token is looked at behind a token that is no address and follows an
\* address.
StopsAtNonIp(seen) ==
  \A k \in 1..Len(seen) :
    (seen[k] \notin ValidIps /\ \E j \in 1..(k - 1) : seen[j] \in ValidIps)
      => k = Len(seen)

\* C15: ~h{,} on "10.0.0.1, 203.0.113.9" sets the host to the first address;
\* the directive sets the host to the first token, delimited by the reject
\* set, that is a valid IP, and looks at no token behind the first non-IP
\* token that follows the host.
XffApplied(w) ==
  /\ w.applied # <<>>
  /\ w.applied[1].at = "tok"
  /\ w.applied[1].skips # <<>>
XffStoppedEarly ==
  /\ XffApplied(walk)
  /\ ~walk.item.host.null
  /\ Len(XffScan(NullStr, walk.applied[1]).seen)
       < Len(RejectTokens(XffField(walk.applied[1]), 1, walk.applied[1].skips))
  /\ ~HardDelim(walk.applied[1])

\* --------------------------------------------------- the gate on its own
\* should_restore_from_disk called in the middle of a run, on every log
\* state and stored LastParse a run can meet. A pipe has no size and no
\* snippet, and its record is glog->lp as the earlier run left it; a file
\* has the first READ_BYTES bytes of its content as snippet, and its record,
\* if any, was stored for a file that was not empty.
MaxSize == 3       \* largest log size, in bytes
MaxGate == 2       \* largest timestamp and line number at the gate
\* READ_BYTES of the headers, scaled to the sizes.
READ_BYTES == MaxSize - 1
SnippetBytes == {1, 2}
Snippets(size) == [1..Min(size, READ_BYTES) -> SnippetBytes]
GateConfs ==
  [jobs : {1}, chunk_size : {1}, num_tests : {0}, restore : BOOLEAN,
   dry_run : {FALSE}, no_strict_status : {FALSE}]
GateLogs ==
  {[NewGLog EXCEPT !.inode = FileSrc.inode, !.size = sz, !.snippet = sn,
                   !.read = rd, !.lp.ts = ts, !.lp.size = sz] :
     sz \in 0..MaxSize, sn \in UNION {Snippets(z) : z \in 0..MaxSize},
     rd \in 0..MaxGate, ts \in 0..MaxGate}
    \cup {[NewGLog EXCEPT !.read = rd, !.lp.ts = ts] :
            rd \in 0..MaxGate, ts \in 0..MaxGate}
GateStores(inode) ==
  IF inode = 0
    THEN {[NoLastParse EXCEPT !.ts = ts] : ts \in 0..MaxGate}
    ELSE {NoLastParse}
           \cup {[ts |-> ts, line |-> ln, size |-> sz, snippet |-> sn] :
                   ts \in 0..MaxGate, ln \in 0..MaxGate, sz \in 1..MaxSize,
                   sn \in UNION {Snippets(z) : z \in 1..MaxSize}}
WellFormedLog(g) == Len(g.snippet) = Min(g.size, READ_BYTES)
WellFormedStore(lp) == Len(lp.snippet) = Min(lp.size, READ_BYTES)
InitGates(Gates) ==
  /\ conf \in GateConfs
  /\ src = FileSrc
  /\ input = <<>>
  /\ glog \in {g \in GateLogs : WellFormedLog(g)}
  /\ ht \in {lp \in GateStores(glog.inode) : WellFormedStore(lp)}
  /\ lp0 = ht
  /\ pos = 0
  /\ errno = "0"
  /\ m = NewMain
  /\ jobs = [bk \in Blocks \X Slots |-> NewJob(0)]
  /\ thr = [k \in Slots |-> NoThread]
  /\ stop = FALSE
  /\ emitted = <<>>
  /\ outcome = <<>>
  /\ run = 1
  /\ prev = NoPrev
  /\ fault = {}
  /\ walk = NoWalk
  /\ gate \in Gates

InitGate == InitGates({[NoGate EXCEPT !.st = "called"]})

\* The call returns; in process_invalid the line is counted when it
\* returned 0.
GateReturned(g, ret) ==
  [g EXCEPT !.st = "returned", !.ret = ret, !.counted = ret = 0]
ShouldRestoreFromDisk ==
  /\ gate.st = "called"
  /\ gate' = GateReturned(gate, IF should_restore_from_disk(glog, ht, conf)
                                  THEN 1 ELSE 0)
  /\ UNCHANGED <<walk, conf, src, input, ht, lp0, glog, pos, errno, m, jobs,
                 thr, stop, emitted, outcome, run, prev, fault>>
SpecGate == InitGate /\ [][ShouldRestoreFromDisk]_vars

\* Two snippets are the same when neither is empty and they agree on the
\* bytes both have.
SameSnippet(a, b) ==
  /\ a # <<>> /\ b # <<>>
  /\ \A i \in 1..Min(Len(a), Len(b)) : a[i] = b[i]
\* The decision table, top to bottom: 0 is process, 1 is drop.
DecisionTable(restore, inode, size, line, snippet, ts, saved) ==
  IF ~restore \/ saved.ts = 0 THEN 0
  ELSE IF SameSnippet(snippet, saved.snippet) /\ size > saved.size
            /\ line >= saved.line THEN 0
  ELSE IF SameSnippet(snippet, saved.snippet) THEN 1
  ELSE IF inode = 0 /\ ts <= saved.ts THEN 1
  ELSE IF ts > saved.ts THEN 0
  ELSE IF size < saved.size /\ ts = saved.ts THEN 0
  ELSE 1

\* C16: should_restore_from_disk returns what the decision table gives for
\* the restore flag, the stored LastParse and the state of the log.
C16_GateIsDecisionTable ==
  gate.st = "returned" =>
    gate.ret = DecisionTable(conf.restore, glog.inode, glog.size, glog.read,
                             glog.snippet, glog.lp.ts, ht)
\* The truncation row decided the call.
C16_Witness ==
  /\ gate.st = "returned" /\ gate.ret = 0
  /\ conf.restore /\ ht.ts # 0
  /\ glog.inode # 0
  /\ ~SameSnippet(glog.snippet, ht.snippet)
  /\ glog.size < ht.size /\ glog.lp.ts = ht.ts

\* C17: with --restore and a pipe, every well-formed line whose own
\* timestamp is not after the stored LastParse.ts is dropped (no
\* process_log call), whatever the timestamps of the other lines.
C17_PipeDropsOldLines ==
  (conf.restore /\ src.inode = 0 /\ lp0.ts # 0) =>
    \A n \in 1..Len(input) :
      (ParsedOk(input[n]) /\ input[n].ts <= lp0.ts) => "log" \notin outcome[n]
\* The same for one job and a log whose timestamps never decrease.
Sorted(lines) ==
  \A i, j \in 1..Len(lines) :
    (i < j /\ ParsedOk(lines[i]) /\ ParsedOk(lines[j])) =>
      lines[i].ts <= lines[j].ts
SortedPipeDropsOldLines ==
  (conf.jobs = 1 /\ Sorted(input) /\ \A n \in 1..Len(input) : input[n] # LBadFmt)
    => C17_PipeDropsOldLines

\* process_invalid called in the middle of a run with --restore or without,
\* for an item with or without a date.
InvalidItem(date) == [init_log_item(1) EXCEPT !.date = date, !.errstr = TRUE]
InitInvalid ==
  InitGates({[NoGate EXCEPT !.st = "invalid", !.date = d, !.ts = ts] :
               d \in BOOLEAN, ts \in {-1, 0, MaxGate}})
\* process_invalid up to its call of should_restore_from_disk.
InvalidApply(r) ==
  /\ glog' = r.g
  /\ gate' = IF r.next = "igate" THEN [gate EXCEPT !.st = "called"]
             ELSE [gate EXCEPT !.st = "done", !.counted = "invalid" \in r.tags]
ProcessInvalid ==
  /\ gate.st = "invalid"
  /\ InvalidApply(process_invalid(glog, InvalidItem(gate.date), gate.ts, conf, ht))
  /\ UNCHANGED <<walk, conf, src, input, ht, lp0, pos, errno, m, jobs, thr,
                 stop, emitted, outcome, run, prev, fault>>
NextInvalid == ProcessInvalid \/ ShouldRestoreFromDisk
SpecInvalid == InitInvalid /\ [][NextInvalid]_vars

\* C18: with --restore, process_invalid counts a line only when the gate
\* would process it, and does not count a line from which no timestamp
\* could be taken.
InvalidDone == gate.st \in {"done", "returned"}
C18_InvalidCountFollowsGate ==
  (conf.restore /\ InvalidDone /\ gate.counted) =>
    /\ ~should_restore_from_disk(glog, ht, conf)
    /\ gate.date /\ gate.ts # -1
\* The same for the lines that have a date mktime accepts.
DatedInvalidCountFollowsGate ==
  (gate.date /\ gate.ts # -1) => C18_InvalidCountFollowsGate
\* A line without a date is counted unless the log is the stored one and
\* has not grown past it.
UndatedInvalidIsCounted ==
  (conf.restore /\ InvalidDone /\ ~gate.date) =>
    (gate.counted <=>
       ~(/\ glog.inode # 0 /\ is_likely_same_log(glog, ht)
         /\ ~(glog.size > ht.size /\ glog.read >= ht.line)))

\* A run with --restore over a pipe, or over a file that is not the stored
\* one: invalid lines with a date reach the store of process_invalid.
OtherLastParse == [ts |-> 1, line |-> 1, size |-> 1, snippet |-> <<2, 2>>]
InitStamp ==
  InitWith(ConfsRestore, {FileSrc, PipeSrc(FALSE)},
           SeqsUpTo({LNoReq, LOk1, LOk2}, MaxLines),
           {NoLastParse, OtherLastParse})
SpecStamp == InitStamp /\ [][Next]_vars

\* C19: while a log is parsed, glog->lp.ts never decreases, whichever
\* operation writes it and however the workers interleave.
C19_LastTsNeverDecreases == [][glog'.lp.ts >= glog.lp.ts]_vars
\* The same for the logs whose lines are all valid: atomic_lpts_update is
\* the only writer.
AllValid == \A n \in 1..Len(input) : ParsedOk(input[n])
ValidLinesNeverDecreaseLastTs ==
  [][AllValid => glog'.lp.ts >= glog.lp.ts]_vars

\* C20: every thread read_lines created is joined before read_lines
\* returns, on every way out of the loop, and pthread_create never writes
\* a handle of threads[] whose thread is still unjoined.
C20_AllJoinedAtReturn ==
  m.pc \in {"ret", "done"} => \A k \in Slots : thr[k].st \in {"none", "joined"}
Created(k) ==
  /\ m.pc = "spawn" /\ conf.jobs > 1 /\ m.k = k
  /\ m' # m
  /\ thr'[k].st = "run"
C20_NoHandleOverwritten ==
  \A k \in Slots : Created(k) => thr[k].st \in {"none", "joined"}
C20_ThreadsJoined ==
  /\ []C20_AllJoinedAtReturn
  /\ [][C20_NoHandleOverwritten]_vars
\* C20 witness: two workers ran twice over the same two handles, and both
\* are joined at the return.
C20_Witness ==
  /\ conf.jobs = 2 /\ conf.chunk_size = 1 /\ conf.num_tests = 0
  /\ ~conf.dry_run /\ ~stop
  /\ m.pc = "done"
  /\ Len(input) = 3 /\ pos = 3
  /\ \A k \in Slots : thr[k].st = "joined"

\* C21: the reader and the inserter never touch a GJob slot while a worker
\* runs read_lines_thread on it; process_lines and the drain work on a
\* block whose workers have been joined.
WorkerOn(b, k) == thr[k].st = "run" /\ thr[k].blk = b
C21_MainAwayFromWorkers ==
  /\ m.pc = "fill" => \A k \in Slots : ~WorkerOn(m.b, k)
  /\ (m.pc = "insert" /\ conf.jobs > 1) =>
       \A k \in Slots :
         /\ jobs[<<m.b, k>>].running = 0
         /\ thr[k].st \in {"run", "fin"} => thr[k].blk # m.b
  /\ (m.pc = "drain" /\ m.b \in Blocks) => ~WorkerOn(m.b, m.k)
C21_MainLeavesSlotAlone ==
  \A k \in Slots :
    (thr[k].st = "run" /\ m' # m) =>
      jobs'[<<thr[k].blk, k>>] = jobs[<<thr[k].blk, k>>]
C21_SlotExclusive ==
  /\ []C21_MainAwayFromWorkers
  /\ [][C21_MainLeavesSlotAlone]_vars
\* C21 witness: the inserter has a filled chunk of one block before it while
\* a worker runs on the same slot of the other block.
C21_Witness ==
  /\ conf.jobs = 2
  /\ m.pc = "insert"
  /\ jobs[<<m.b, m.k>>].p > 0
  /\ WorkerOn(1 - m.b, m.k)

\* Logs long enough for two workers to get the same chunk twice, with
\* every thread created.
InitReuse == InitFault
SpecReuse == InitReuse /\ [][Next]_vars

\* C22: an item a parser put into a chunk goes to process_log at most once
\* and is freed once: the inserter meets no entry of an earlier fill below
\* p, the drain takes up no chunk the loop inserted, and at the return
\* every item is freed.
C22_NoLeftOverRead ==
  (m.pc \in {"insert", "drain"} /\ m.b \in Blocks) =>
    /\ jobs[<<m.b, m.k>>].parsed = jobs[<<m.b, m.k>>].p
    /\ \A i \in 1..jobs[<<m.b, m.k>>].p : ~jobs[<<m.b, m.k>>].logitems[i].freed
C22_HandedOnce ==
  \A i, j \in 1..Len(emitted) : i # j => emitted[i].line # emitted[j].line
C22_AllFreedAtReturn ==
  (m.pc = "done" /\ m.ret = 0) =>
    \A bk \in Blocks \X Slots :
      /\ jobs[bk].p = 0
      /\ \A i \in DOMAIN jobs[bk].logitems :
           jobs[bk].logitems[i].null \/ jobs[bk].logitems[i].freed
SniffSucceeded ==
  conf.num_tests > 0 /\ m.pc \notin {"open", "sniff"} /\ m.itest = 0

\* C23: after a successful sniff the pipeline goes on from the line the
\* sniff stopped at: the file position never goes back and a fill takes the
\* lines that follow it, so the lines in the chunks come after the sniffed
\* ones and no line is in two chunks; a chunk is parsed once per fill;
\* every line consumed goes to the sniff or into a chunk, and no chunk is
\* left unparsed or uninserted at the return; and the test flag of
\* every slot of both blocks stays 0.
C23_TestFlagsCleared ==
  SniffSucceeded => \A bk \in Blocks \X Slots : jobs[bk].test = 0
C23_ChunksFollowSniff ==
  SniffSucceeded =>
    /\ \A bk \in Blocks \X Slots : \A i \in 1..jobs[bk].p :
         /\ jobs[bk].lines[i] > m.sniffed
         /\ jobs[bk].lines[i] <= pos
         /\ \A bk2 \in Blocks \X Slots : \A j \in 1..jobs[bk2].p :
              (<<bk, i>> # <<bk2, j>>) => jobs[bk].lines[i] # jobs[bk2].lines[j]
    /\ \A bk \in Blocks \X Slots : jobs[bk].parsed <= jobs[bk].p
    /\ \A i, j \in 1..Len(emitted) : i # j => emitted[i].line # emitted[j].line
    /\ (m.pc \in {"insert", "drain"} /\ m.b \in Blocks) =>
         jobs[<<m.b, m.k>>].parsed = jobs[<<m.b, m.k>>].p
    /\ (m.pc = "done" /\ m.ret = 0) =>
         \A bk \in Blocks \X Slots : jobs[bk].p = 0
C23_FillTakesNextLines ==
  /\ pos' >= pos
  /\ \A bk \in Blocks \X Slots : \A i \in 1..jobs'[bk].p :
       (i > jobs[bk].p \/ jobs'[bk].lines[i] # jobs[bk].lines[i]) =>
         jobs'[bk].lines[i] \in (pos + 1)..pos'
  /\ \A n \in (pos + 1)..pos' :
       \/ m.pc = "sniff" /\ pos' = pos + 1
       \/ \E bk \in Blocks \X Slots : \E i \in 1..jobs'[bk].p :
            jobs'[bk].lines[i] = n
MaxScan == 4       \* longest line
ScanBytes == {"1", " ", ",", "\\", "[", "]"}
ByteAt(s, i) == IF i \in 1..Len(s) THEN s[i] ELSE ""

\* strchr (s + i - 1, c): the position of the first c from position i on,
\* 0 for NULL. The NUL is found at the end of the string.
StrChr(s, i, c) ==
  IF c = "" THEN Len(s) + 1
  ELSE IF \E j \in i..Len(s) : s[j] = c
    THEN CHOOSE j \in i..Len(s) : s[j] = c /\ \A k \in i..(j - 1) : s[k] # c
  ELSE 0

\* get_delim: the byte of the format behind the directive at p, empty at
\* the end of the format.
get_delim(fmt, p) ==
  IF ByteAt(fmt, p) = "" \/ ByteAt(fmt, p + 1) = "" THEN "" ELSE fmt[p + 1]

\* A token parse_string returns: NULL with the cursor left alone, or the
\* token with the cursor where it ended.
NullToken(i) == [null |-> TRUE, tkn |-> <<>>, cur |-> i]

\* parsed_string (pch, &str, 1) with *str at position i: the bytes from i up
\* to pch, trimmed; the cursor moves to pch.
parsed_string(s, i, pch) ==
  [null |-> FALSE, tkn |-> trim_str(SubSeq(s, i, pch - 1)), cur |-> pch]

\* parse_string, its do-while loop with pch at position pch: a byte equal
\* to end counts, the cnt-th one or the NUL ends the token, a backslash
\* takes pch one byte further, and the loop ends when the byte pch is then
\* at is the NUL.
RECURSIVE ParseStringLoop(_, _, _, _, _, _)
ParseStringAfter(s, i, end, cnt, nxt, idx) ==
  IF ByteAt(s, nxt) = "" THEN NullToken(i)
  ELSE ParseStringLoop(s, i, end, cnt, nxt + 1, idx)
ParseStringByte(s, i, end, cnt, pch, idx, c) ==
  IF (c = end /\ cnt = idx) \/ c = "" THEN parsed_string(s, i, pch)
  ELSE ParseStringAfter(s, i, end, cnt, IF c = "\\" THEN pch + 1 ELSE pch, idx)
ParseStringLoop(s, i, end, cnt, pch, idx) ==
  ParseStringByte(s, i, end, cnt, pch,
                  IF ByteAt(s, pch) = end THEN idx + 1 ELSE idx, ByteAt(s, pch))

\* parse_string (&str, delims, cnt) with *str at position i of s; delims is
\* empty or one byte.
parse_string(s, i, delims, cnt) ==
  IF delims # "" /\ StrChr(s, i, delims) = 0 THEN NullToken(i)
  ELSE ParseStringLoop(s, i, delims, cnt, i, 0)

\* handle_default_case_token: the cursor goes to the next occurrence of the
\* byte of the format behind the directive, if there is one.
\* (HandleDefaultPast: the cursor goes one byte past that occurrence.)
HandleDefaultPast(s, i, fmt, p) ==
  IF StrChr(s, i, ByteAt(fmt, p + 1)) # 0
    THEN Min(StrChr(s, i, ByteAt(fmt, p + 1)) + 1, Len(s) + 1)
    ELSE i
handle_default_case_token(s, i, fmt, p) ==
  IF StrChr(s, i, ByteAt(fmt, p + 1)) # 0
    THEN StrChr(s, i, ByteAt(fmt, p + 1))
    ELSE i

\* The fields of the GLogItem that the directives below fill, as
\* init_log_item leaves them.
ScanItem ==
  [host |-> NullStr, vhost |-> NullStr, date |-> NullStr, time |-> NullStr,
   resp_size |-> 0, errstr |-> FALSE]

\* str_to_time with a date or time format of digits only: 0 for a token
\* that is a number.
str_to_time(tkn) ==
  IF tkn # <<>> /\ \A k \in 1..Len(tkn) : tkn[k] \in Digits THEN 0 ELSE 1

\* What parse_specifier and special_specifier leave: the item, the cursor
\* and the return code.
Scanned(it, cur, ret) == [item |-> it, cur |-> cur, ret |-> ret]
ScanErr(it, cur) == Scanned(spec_err(it).item, cur, 1)
Skipped(it, s, cur, fmt, p) ==
  Scanned(it, handle_default_case_token(s, cur, fmt, p), 0)

\* parse_specifier, case 'd', with a date format that holds no space (cnt
\* is 1).
DateToken(it, cur, r) ==
  IF r.null THEN ScanErr(it, cur)
  ELSE IF str_to_time(r.tkn) # 0 THEN ScanErr(it, r.cur)
  ELSE Scanned([it EXCEPT !.date = Str(r.tkn)], r.cur, 0)
SpecifierD(it, s, cur, fmt, p) ==
  IF ~it.date.null THEN Skipped(it, s, cur, fmt, p)
  ELSE DateToken(it, cur, parse_string(s, cur, get_delim(fmt, p), 1))

\* case 't'.
TimeToken(it, cur, r) ==
  IF r.null THEN ScanErr(it, cur)
  ELSE IF str_to_time(r.tkn) # 0 THEN ScanErr(it, r.cur)
  ELSE Scanned([it EXCEPT !.time = Str(r.tkn)], r.cur, 0)
SpecifierT(it, s, cur, fmt, p) ==
  IF ~it.time.null THEN Skipped(it, s, cur, fmt, p)
  ELSE TimeToken(it, cur, parse_string(s, cur, get_delim(fmt, p), 1))

\* case 'x': skipped only when both the date and the time are there.
StampToken(it, cur, r) ==
  IF r.null THEN ScanErr(it, cur)
  ELSE IF str_to_time(r.tkn) # 0 THEN ScanErr(it, r.cur)
  ELSE Scanned([it EXCEPT !.date = Str(r.tkn), !.time = Str(r.tkn)], r.cur, 0)
SpecifierX(it, s, cur, fmt, p) ==
  IF ~it.time.null /\ ~it.date.null THEN Skipped(it, s, cur, fmt, p)
  ELSE StampToken(it, cur, parse_string(s, cur, get_delim(fmt, p), 1))

\* case 'v'.
VhostToken(it, cur, r) ==
  IF r.null THEN ScanErr(it, cur)
  ELSE Scanned([it EXCEPT !.vhost = Str(r.tkn)], r.cur, 0)
SpecifierV(it, s, cur, fmt, p) ==
  IF ~it.vhost.null THEN Skipped(it, s, cur, fmt, p)
  ELSE VhostToken(it, cur, parse_string(s, cur, get_delim(fmt, p), 1))

\* case 'h', with IP validation on: behind an opening bracket the cursor
\* moves one byte, and the token ends at the closing bracket unless the line
\* ends there.
HostToken(it, cur, r) ==
  IF r.null THEN ScanErr(it, cur)
  ELSE IF invalid_ipaddr(r.tkn) THEN ScanErr(it, r.cur)
  ELSE Scanned([it EXCEPT !.host = Str(r.tkn)], r.cur, 0)
HostBracket(it, s, cur, end) ==
  HostToken(it, cur,
            parse_string(s, cur, IF ByteAt(s, cur) # "" THEN "]" ELSE end, 1))
SpecifierH(it, s, cur, fmt, p) ==
  IF ~it.host.null THEN Skipped(it, s, cur, fmt, p)
  ELSE IF ByteAt(s, cur) = "[" THEN HostBracket(it, s, cur + 1, get_delim(fmt, p))
  ELSE HostToken(it, cur, parse_string(s, cur, get_delim(fmt, p), 1))

\* case 'b': a token that is no number counts as 0.
SizeOf(t, r) == IF BadNumber(t, r) THEN 0 ELSE r.val
SizeToken(it, cur, r) ==
  IF r.null THEN ScanErr(it, cur)
  ELSE Scanned([it EXCEPT !.resp_size = SizeOf(r.tkn, strtoull(r.tkn))],
               r.cur, 0)
SpecifierB(it, s, cur, fmt, p) ==
  IF it.resp_size # 0 THEN Skipped(it, s, cur, fmt, p)
  ELSE SizeToken(it, cur, parse_string(s, cur, get_delim(fmt, p), 1))

\* parse_specifier at position p of the format (the byte behind the %); a
\* byte that is no directive takes the default case.
FieldSpecs == {"d", "t", "x", "v", "h", "b"}
ScanSpecifier(it, s, cur, fmt, p) ==
  CASE fmt[p] = "d" -> SpecifierD(it, s, cur, fmt, p)
    [] fmt[p] = "t" -> SpecifierT(it, s, cur, fmt, p)
    [] fmt[p] = "x" -> SpecifierX(it, s, cur, fmt, p)
    [] fmt[p] = "v" -> SpecifierV(it, s, cur, fmt, p)
    [] fmt[p] = "h" -> SpecifierH(it, s, cur, fmt, p)
    [] fmt[p] = "b" -> SpecifierB(it, s, cur, fmt, p)
    [] OTHER -> Skipped(it, s, cur, fmt, p)

\* extract_braces: the loop over the format from position q, and the reject
\* set between the braces; p moves behind the closing brace.
RECURSIVE BracesLoop(_, _, _, _)
BracesLoop(fmt, q, esc, b1) ==
  IF q > Len(fmt) THEN [b1 |-> b1, b2 |-> 0]
  ELSE IF fmt[q] = "\\" THEN BracesLoop(fmt, q + 1, TRUE, b1)
  ELSE IF fmt[q] = "{" /\ ~esc THEN BracesLoop(fmt, q + 1, esc, q)
  ELSE IF fmt[q] = "}" /\ ~esc THEN [b1 |-> b1, b2 |-> q]
  ELSE BracesLoop(fmt, q + 1, FALSE, b1)
BracesOf(fmt, p, r) ==
  IF r.b1 = 0 \/ r.b2 = 0 \/ r.b2 - (r.b1 + 1) <= 0
    THEN [null |-> TRUE, skips |-> <<>>, p |-> p]
    ELSE [null |-> FALSE, skips |-> SubSeq(fmt, r.b1 + 1, r.b2 - 1),
          p |-> r.b2 + 1]
extract_braces(fmt, p) == BracesOf(fmt, p, BracesLoop(fmt, p, FALSE, 0))

\* find_xff_host: with a hard delimiter the field is cut out by
\* parse_string and the cursor then moves one byte on; without one the
\* addresses are looked for in the rest of the line and the cursor stays.
FindXffSet(it, cur, p, x) ==
  [item |-> [it EXCEPT !.host = x.host], cur |-> cur, p |-> p,
   res |-> IF x.host.null THEN 1 ELSE 0]
FindXffHard(it, skips, cur, p, r) ==
  IF r.null THEN [item |-> it, cur |-> cur, p |-> p, res |-> 0]
  ELSE FindXffSet(it, r.cur + 1, p, set_xff_host(it.host, r.tkn, skips, TRUE))
FindXffAt(it, s, cur, skips, p, c) ==
  IF c # "" /\ ~InSkips(c, skips) /\ StrChr(s, cur, c) # 0
    THEN FindXffHard(it, skips, cur, p, parse_string(s, cur, c, 1))
    ELSE FindXffSet(it, cur, p,
                    set_xff_host(it.host, SubSeq(s, cur, Len(s)), skips, FALSE))
FindXffBraces(it, s, cur, fmt, p, e) ==
  IF e.null THEN [item |-> spec_err(it).item, cur |-> cur, p |-> p, res |-> 1]
  ELSE FindXffAt(it, s, cur, e.skips, e.p, ByteAt(fmt, e.p))
find_xff_host(it, s, cur, fmt, p) ==
  FindXffBraces(it, s, cur, fmt, p, extract_braces(fmt, p))

\* special_specifier at position p of the format (the byte behind the ~).
SpecialOf(r) ==
  [item |-> IF r.res # 0 THEN spec_err(r.item).item ELSE r.item,
   cur |-> r.cur, p |-> r.p, ret |-> IF r.res # 0 THEN 1 ELSE 0]
ScanSpecial(it, s, cur, fmt, p) ==
  IF fmt[p] = "h" THEN SpecialOf(find_xff_host(it, s, cur, fmt, p))
  ELSE [item |-> it, cur |-> cur, p |-> p, ret |-> 0]

\* parse_format at work on one line: the format and the position p in it,
\* the line and the cursor (str), perc and tilde, the item, the return
\* code. out is "start" before the first check, "scanning" in the loop,
\* "returned" after the return, and "outside" once a byte that is no NUL
\* was read outside the line.
NewScan(fmt, str) ==
  [fmt |-> fmt, p |-> 1, str |-> str, cur |-> 1, perc |-> 0, tilde |-> 0,
   item |-> ScanItem, ret |-> 0, out |-> "start"]
ScanReturned(w, it, cur, ret) ==
  [w EXCEPT !.item = it, !.cur = cur, !.ret = ret, !.out = "returned"]

\* The loop of parse_format, one pass, at the byte c of the format.
AfterSpecial(w, r) ==
  IF r.ret = 1 THEN ScanReturned([w EXCEPT !.p = r.p], r.item, r.cur, 1)
  ELSE [w EXCEPT !.item = r.item, !.cur = r.cur, !.p = r.p + 1, !.tilde = 0]
AfterSpecifier(w, r) ==
  IF r.ret # 0 THEN ScanReturned(w, r.item, r.cur, r.ret)
  ELSE [w EXCEPT !.item = r.item, !.cur = r.cur, !.p = @ + 1, !.perc = 0]
ReadsLine(w, c) == ~(c = "%") /\ ~(c = "~" /\ w.perc = 0)
ScanByte(w, c) ==
  IF c = "%" THEN [w EXCEPT !.perc = @ + 1, !.p = @ + 1]
  ELSE IF c = "~" /\ w.perc = 0 THEN [w EXCEPT !.tilde = @ + 1, !.p = @ + 1]
  ELSE IF ByteAt(w.str, w.cur) = ""
    THEN ScanReturned(w, spec_err(w.item).item, w.cur, 1)
  ELSE IF w.tilde > 0
    THEN AfterSpecial(w, ScanSpecial(w.item, w.str, w.cur, w.fmt, w.p))
  ELSE IF w.perc > 0
    THEN AfterSpecifier(w, ScanSpecifier(w.item, w.str, w.cur, w.fmt, w.p))
  ELSE [w EXCEPT !.cur = @ + 1, !.p = @ + 1]

\* The cursor is behind the NUL of the line: what *str reads there is
\* anything, a NUL (the line counts as exhausted) or another byte.
Outside(w) == w.cur > Len(w.str) + 1
ReadOutside(w) ==
  {ScanReturned(w, spec_err(w.item).item, w.cur, 1), [w EXCEPT !.out = "outside"]}

\* parse_format, its first check: no line, or an empty one, returns 1.
ParseFormatStart ==
  /\ walk.out = "start"
  /\ walk' = IF walk.str = <<>> THEN ScanReturned(walk, walk.item, walk.cur, 1)
             ELSE [walk EXCEPT !.out = "scanning"]
  /\ UNCHANGED <<gate, conf, src, input, ht, lp0, glog, pos, errno, m, jobs,
                 thr, stop, emitted, outcome, run, prev, fault>>

\* One pass of the loop.
ParseFormatByte ==
  /\ walk.out = "scanning"
  /\ walk.p <= Len(walk.fmt)
  /\ IF ReadsLine(walk, walk.fmt[walk.p]) /\ Outside(walk)
       THEN walk' \in ReadOutside(walk)
       ELSE walk' = ScanByte(walk, walk.fmt[walk.p])
  /\ UNCHANGED <<gate, conf, src, input, ht, lp0, glog, pos, errno, m, jobs,
                 thr, stop, emitted, outcome, run, prev, fault>>

\* The format is exhausted: parse_format returns 0.
ParseFormatEnd ==
  /\ walk.out = "scanning"
  /\ walk.p > Len(walk.fmt)
  /\ walk' = ScanReturned(walk, walk.item, walk.cur, 0)
  /\ UNCHANGED <<gate, conf, src, input, ht, lp0, glog, pos, errno, m, jobs,
                 thr, stop, emitted, outcome, run, prev, fault>>

NextScan == ParseFormatStart \/ ParseFormatByte \/ ParseFormatEnd

\* Formats with a directive met twice, with the XFF form in front of a hard
\* delimiter and at the end of the format, and with no directive known to
\* parse_specifier; lines of a few bytes, among them blanks, brackets and
\* backslashes.
ScanFormats ==
  {<<"%", "v", " ", "%", "v", ",">>,
   <<"%", "d", " ", "%", "d">>,
   <<"%", "t", " ", "%", "x">>,
   <<"%", "x", " ", "%", "t">>,
   <<"%", "x", " ", "%", "x">>,
   <<"%", "b", " ", "%", "b">>,
   <<"%", "h", " ", "%", "h">>,
   <<"%", "h", ",", "%", "v">>,
   <<"~", "h", "{", ",", "}", " ", "%", "v">>,
   <<"~", "h", "{", ",", "}">>,
   <<"%", "^", " ", "%", "v">>,
   <<"%", "v">>}
ScanLines == SeqsUpTo(ScanBytes, MaxScan)
InitScan ==
  InitWalk({NewScan(f, s) : f \in ScanFormats, s \in ScanLines})
SpecScan == InitScan /\ [][NextScan]_vars

\* A field directive is met with its field populated: parse_specifier is
\* called for it and the field holds a value.
Populated(c, it) ==
  CASE c = "d" -> ~it.date.null
    [] c = "t" -> ~it.time.null
    [] c = "x" -> ~it.date.null /\ ~it.time.null
    [] c = "v" -> ~it.vhost.null
    [] c = "h" -> ~it.host.null
    [] c = "b" -> it.resp_size # 0
AtPopulated(w) ==
  /\ w.out = "scanning" /\ w.p <= Len(w.fmt)
  /\ w.perc > 0 /\ w.tilde = 0
  /\ w.fmt[w.p] \in FieldSpecs
  /\ ~Outside(w) /\ ByteAt(w.str, w.cur) # ""
  /\ Populated(w.fmt[w.p], w.item)
\* The cursor went from i to the first byte c from i on (the NUL for an
\* empty c), or stayed where no such byte is.
MovedToNext(s, i, j, c) ==
  IF \E k \in i..(Len(s) + 1) : ByteAt(s, k) = c
    THEN /\ j \in i..(Len(s) + 1)
         /\ ByteAt(s, j) = c
         /\ \A k \in i..(j - 1) : ByteAt(s, k) # c
    ELSE j = i

\* C24: a field directive met with its field populated leaves the item as
\* it is, returns no error, and moves the cursor to the next occurrence of
\* the byte of the format behind the directive and nowhere else.
C24_PopulatedFieldStep ==
  AtPopulated(walk) =>
    /\ walk'.item = walk.item
    /\ walk'.ret = 0 /\ walk'.out = "scanning"
    /\ MovedToNext(walk.str, walk.cur, walk'.cur, ByteAt(walk.fmt, walk.p + 1))
C30_CursorWithinLine == walk.cur <= Len(walk.str) + 1

\* The same for lines that hold no backslash.
NoBackslash(s) == \A k \in 1..Len(s) : s[k] # "\\"
PlainLineCursorWithinLine == NoBackslash(walk.str) => C30_CursorWithinLine

\* parse_format goes on to read the line behind its NUL.
ReadsOutsideLine == walk.out = "outside"
NeverReadsOutsideLine == ~ReadsOutsideLine

\* parse_string called on its own: a line, a delimiter (empty, or one byte
\* that is no backslash) and a count.
MaxCnt == 2        \* largest count of delimiters asked for
TokenDelims == {"", " ", ","}
NewCall(s, d, c) ==
  [str |-> s, delims |-> d, cnt |-> c, res |-> NullToken(1), out |-> "call"]
ParseStringCall ==
  /\ walk.out = "call"
  /\ walk' = [walk EXCEPT !.res = parse_string(walk.str, 1, walk.delims, walk.cnt),
                          !.out = "token"]
  /\ UNCHANGED <<gate, conf, src, input, ht, lp0, glog, pos, errno, m, jobs,
                 thr, stop, emitted, outcome, run, prev, fault>>
InitToken ==
  InitWalk({NewCall(s, d, c) : s \in ScanLines, d \in TokenDelims, c \in 1..MaxCnt})
SpecToken == InitToken /\ [][ParseStringCall]_vars

\* A byte of s is escaped when an unescaped backslash stands in front of
\* it; the positions of the delimiter d that are not escaped, and the n-th
\* of them.
RECURSIVE Escaped(_, _)
Escaped(s, j) == j > 1 /\ s[j - 1] = "\\" /\ ~Escaped(s, j - 1)
Unescaped(s, d) == {j \in 1..Len(s) : s[j] = d /\ ~Escaped(s, j)}
NthOf(S, n) == CHOOSE j \in S : Cardinality({k \in S : k <= j}) = n

\* C25: parse_string returns the token that ends at the cnt-th unescaped
\* delimiter; with an empty delimiter it returns the whole rest of the
\* line, whatever the line holds; it returns NULL only when a delimiter was
\* given and the line does not hold it.
C25_TokenAtDelimiter ==
  (walk.delims # "" /\ Cardinality(Unescaped(walk.str, walk.delims)) >= walk.cnt)
    => walk.res = parsed_string(walk.str, 1,
                                NthOf(Unescaped(walk.str, walk.delims), walk.cnt))
C25_EmptyDelimiterTakesRest ==
  walk.delims = "" => walk.res = parsed_string(walk.str, 1, Len(walk.str) + 1)
C25_NullOnlyWithoutDelimiter ==
  walk.res.null =>
    /\ walk.delims # ""
    /\ \A j \in 1..Len(walk.str) : walk.str[j] # walk.delims
C25_ParseStringToken ==
  walk.out = "token" =>
    /\ C25_TokenAtDelimiter
    /\ C25_EmptyDelimiterTakesRest
    /\ C25_NullOnlyWithoutDelimiter

\* The token does end at the cnt-th unescaped delimiter when there is one.
UnescapedDelimiterEndsToken == walk.out = "token" => C25_TokenAtDelimiter

\* With no unescaped backslash as the last byte of the line, the rest of
\* the claim holds too.
EndsEscaping(s) == s # <<>> /\ s[Len(s)] = "\\" /\ ~Escaped(s, Len(s))
ParseStringTokenUnlessEscapedEnd ==
  ~EndsEscaping(walk.str) => C25_ParseStringToken

\* ------------------------------------------------------------- ignore_line
\* parse_line from ignore_line on, for one item that passed count_process
\* outside a dry run. The item: whether excluded_ip excludes its host,
\* whether is_crawler takes its agent for a robot, whether ignore_referer
\* hits its referer, its status, and its request as bytes. The
\* configuration: ignore_crawlers, crawlers_only, ignore_statics (0, or the
\* level given to static requests), ignore_qstr, all_static_files; the one
\* static extension is StaticExt and the one ignored status code is
\* IgnoredStatus.
MaxPath == 4       \* longest request
PathBytes == {"/", "j", "?"}
StaticExt == "j"
IgnoredStatus == <<404>>

\* verify_static_content for the one extension, of length 1.
QMark(req) == StrChr(req, 1, "?")
verify_static_content(req, c) ==
  IF req = <<>> THEN FALSE
  ELSE IF c.all_static_files /\ QMark(req) # 0 /\ QMark(req) - 1 > 1
    THEN req[QMark(req) - 1] = StaticExt
  ELSE Len(req) > 1 /\ req[Len(req)] = StaticExt
is_static(req, c) == verify_static_content(req, c)

\* handle_crawler: 0 when the line is to be ignored.
handle_crawler(bot, c) ==
  IF ~c.ignore_crawlers /\ ~c.crawlers_only THEN 1
  ELSE IF (c.ignore_crawlers /\ bot) \/ (c.crawlers_only /\ ~bot) THEN 0
  ELSE 1

ignore_status_code(status) ==
  IF status = 0 \/ Len(IgnoredStatus) = 0 THEN FALSE
  ELSE \E i \in 1..Len(IgnoredStatus) : status = IgnoredStatus[i]

ignore_static(req, c) == c.ignore_statics # 0 /\ is_static(req, c)

\* strip_qstring: the request is cut at its first question mark unless
\* that is its first byte.
strip_qstring(req) ==
  IF QMark(req) # 0 /\ QMark(req) - 1 > 0 THEN SubSeq(req, 1, QMark(req) - 1)
  ELSE req

\* ignore_line: the level it returns and the request it leaves.
\* (ignore_line_static_first: the static rule is looked at before the
\* others.)
ignore_line_static_first(it, c) ==
  IF ignore_static(it.req, c) THEN [level |-> c.ignore_statics, req |-> it.req]
  ELSE IF it.excluded THEN [level |-> IGNORE_LEVEL_PANEL, req |-> it.req]
  ELSE IF handle_crawler(it.bot, c) = 0
    THEN [level |-> IGNORE_LEVEL_PANEL, req |-> it.req]
  ELSE IF it.badref THEN [level |-> IGNORE_LEVEL_PANEL, req |-> it.req]
  ELSE IF ignore_status_code(it.status)
    THEN [level |-> IGNORE_LEVEL_PANEL, req |-> it.req]
  ELSE [level |-> 0,
        req |-> IF c.ignore_qstr THEN strip_qstring(it.req) ELSE it.req]
ignore_line(it, c) ==
  IF it.excluded THEN [level |-> IGNORE_LEVEL_PANEL, req |-> it.req]
  ELSE IF handle_crawler(it.bot, c) = 0
    THEN [level |-> IGNORE_LEVEL_PANEL, req |-> it.req]
  ELSE IF it.badref THEN [level |-> IGNORE_LEVEL_PANEL, req |-> it.req]
  ELSE IF ignore_status_code(it.status)
    THEN [level |-> IGNORE_LEVEL_PANEL, req |-> it.req]
  ELSE IF ignore_static(it.req, c)
    THEN [level |-> c.ignore_statics, req |-> it.req]
  ELSE [level |-> 0,
        req |-> IF c.ignore_qstr THEN strip_qstring(it.req) ELSE it.req]

\* The item as parse_line has it in front of ignore_line; req0 is history:
\* the request as it was parsed.
CountedItem(ex, bot, ref, st, req) ==
  [excluded |-> ex, bot |-> bot, badref |-> ref, status |-> st, req |-> req,
   req0 |-> req, ignorelevel |-> 0]
NewCounted(it) == [item |-> it, out |-> "counted"]

\* parse_line: logitem->ignorelevel = ignore_line (logitem).
IgnoreLine ==
  /\ walk.out = "counted"
  /\ walk' = [walk EXCEPT !.item.ignorelevel = ignore_line(walk.item, conf).level,
                          !.item.req = ignore_line(walk.item, conf).req,
                          !.out = "levelled"]
  /\ UNCHANGED <<gate, conf, src, input, ht, lp0, glog, pos, errno, m, jobs,
                 thr, stop, emitted, outcome, run, prev, fault>>

\* parse_line to its end: an item of level IGNORE_LEVEL_PANEL is freed and
\* read_line returns NULL for the line, any other is returned into the
\* chunk.
ParseLineIgnored ==
  /\ walk.out = "levelled"
  /\ walk' = [walk EXCEPT !.out = IF walk.item.ignorelevel = IGNORE_LEVEL_PANEL
                                    THEN "dropped" ELSE "stored"]
  /\ UNCHANGED <<gate, conf, src, input, ht, lp0, glog, pos, errno, m, jobs,
                 thr, stop, emitted, outcome, run, prev, fault>>

\* process_lines_thread on the slot: process_log for the item.
ProcessStored ==
  /\ walk.out = "stored"
  /\ walk' = [walk EXCEPT !.out = "handed"]
  /\ UNCHANGED <<gate, conf, src, input, ht, lp0, glog, pos, errno, m, jobs,
                 thr, stop, emitted, outcome, run, prev, fault>>

NextIgnore == IgnoreLine \/ ParseLineIgnored \/ ProcessStored

ConfsIgnore ==
  [jobs : {1}, chunk_size : {1}, num_tests : {0}, restore : {FALSE},
   dry_run : {FALSE}, no_strict_status : {FALSE},
   ignore_crawlers : BOOLEAN, crawlers_only : BOOLEAN,
   ignore_statics : {0, IGNORE_LEVEL_PANEL, IGNORE_LEVEL_REQ},
   ignore_qstr : BOOLEAN, all_static_files : BOOLEAN]
CountedItems ==
  {CountedItem(ex, bot, ref, st, req) :
     ex \in BOOLEAN, bot \in BOOLEAN, ref \in BOOLEAN, st \in {200, 404},
     req \in SeqsUpTo(PathBytes, MaxPath)}
InitIgnore ==
  InitAll(ConfsIgnore, {FileSrc}, {<<>>}, {NoLastParse},
          {NewCounted(it) : it \in CountedItems})
SpecIgnore == InitIgnore /\ [][NextIgnore]_vars

\* The level of the first rule that matches, in the order excluded IP,
\* crawler policy, ignored referer, ignored status, static asset.
CrawlerPolicyHit(it) ==
  (conf.ignore_crawlers /\ it.bot) \/ (conf.crawlers_only /\ ~it.bot)
StatusIgnored(it) == \E i \in 1..Len(IgnoredStatus) : it.status = IgnoredStatus[i]
StaticRuleHit(it) == conf.ignore_statics # 0 /\ is_static(it.req0, conf)
FirstRuleLevel(it) ==
  IF it.excluded \/ CrawlerPolicyHit(it) \/ it.badref \/ StatusIgnored(it)
    THEN IGNORE_LEVEL_PANEL
  ELSE IF StaticRuleHit(it) THEN conf.ignore_statics
  ELSE 0
Levelled == walk.out \in {"levelled", "dropped", "stored", "handed"}

\* C26: the item gets the level of the first matching rule (IgnorePanel
\* for the first four, conf.ignore_statics for a static request, none
\* otherwise); an IgnorePanel item is dropped and never handed to
\* process_log, an item of any other level is.
C26_LevelOfFirstRule ==
  Levelled => walk.item.ignorelevel = FirstRuleLevel(walk.item)
C26_PanelNeverHanded ==
  /\ walk.out \in {"stored", "handed"} =>
       walk.item.ignorelevel \in {0, IGNORE_LEVEL_REQ}
  /\ walk.out = "dropped" => walk.item.ignorelevel = IGNORE_LEVEL_PANEL
C26_IgnoreLevels == C26_LevelOfFirstRule /\ C26_PanelNeverHanded
\* C26 witness: a static request from a robot under crawlers_only, with
\* statics at IgnoreReq, was handed to process_log at level IgnoreReq.
C26_Witness ==
  /\ walk.out = "handed"
  /\ walk.item.ignorelevel = IGNORE_LEVEL_REQ
  /\ conf.crawlers_only /\ walk.item.bot
  /\ is_static(walk.item.req0, conf)

\* C27: with conf.ignore_qstr set, the request of every item handed to
\* process_log holds no query string, whatever its ignore level.
HasQuery(req) == \E k \in 1..Len(req) : req[k] = "?"
C27_HandedWithoutQuery ==
  (conf.ignore_qstr /\ walk.out = "handed") => ~HasQuery(walk.item.req)

\* The same for the items that are kept (no ignore level) and whose request
\* does not start with the question mark.
KeptHandedWithoutQuery ==
  (conf.ignore_qstr /\ walk.out = "handed" /\ walk.item.ignorelevel = 0
     /\ ByteAt(walk.item.req0, 1) # "?")
    => /\ ~HasQuery(walk.item.req)
       /\ walk.item.req = SubSeq(walk.item.req0, 1, Len(walk.item.req))
\* An item of level IgnoreReq is handed on with its query string.
IgnoreReqKeepsQuery ==
  /\ conf.ignore_qstr /\ walk.out = "handed"
  /\ walk.item.ignorelevel = IGNORE_LEVEL_REQ
  /\ HasQuery(walk.item.req)
NoIgnoreReqKeepsQuery == ~IgnoreReqKeepsQuery

\* -------------------------------------------------------- output_logerrors
\* The logs as the sequence of their log_erridx, the loop variable i (one
\* int for both loops), and as history for each log how often its errors
\* were printed (counted up to PrintCap), the last log printed, whether
\* the logs were printed in index order so far, and whether the passes of
\* the outer loop made so far are odd in number.
MaxLogs == 4       \* most logs
MaxErrs == 2       \* most errors stored for a log
PrintCap == 2      \* prints of one log that are told apart
NewOutput(logs) ==
  [logs |-> logs, i |-> 0, printed |-> [k \in 1..Len(logs) |-> 0],
   last |-> -1, ordered |-> TRUE, odd |-> FALSE, out |-> "printing"]

\* One pass of the outer loop on log i: a log with no error is passed over;
\* otherwise the header and the errors are printed, and the inner loop
\* leaves i at log_erridx. Then ++i.
PrintLog(w) ==
  [w EXCEPT !.printed[w.i + 1] = Min(@ + 1, PrintCap),
            !.ordered = @ /\ w.i > w.last,
            !.last = w.i,
            !.i = w.logs[w.i + 1] + 1,
            !.odd = ~@]
OutputLog ==
  /\ walk.out = "printing"
  /\ walk.i < Len(walk.logs)
  /\ walk' = IF walk.logs[walk.i + 1] = 0
               THEN [walk EXCEPT !.i = @ + 1, !.odd = ~@]
             ELSE PrintLog(walk)
  /\ UNCHANGED <<gate, conf, src, input, ht, lp0, glog, pos, errno, m, jobs,
                 thr, stop, emitted, outcome, run, prev, fault>>

\* The outer loop is left: the trailer is printed and the function returns.
OutputEnd ==
  /\ walk.out = "printing"
  /\ walk.i >= Len(walk.logs)
  /\ walk' = [walk EXCEPT !.out = "printed"]
  /\ UNCHANGED <<gate, conf, src, input, ht, lp0, glog, pos, errno, m, jobs,
                 thr, stop, emitted, outcome, run, prev, fault>>

NextOutput == OutputLog \/ OutputEnd
InitOutput ==
  InitWalk({NewOutput(logs) : logs \in SeqsUpTo(0..MaxErrs, MaxLogs)})
\* The function runs on: no step of it is put off for ever.
SpecOutput == InitOutput /\ [][NextOutput]_vars /\ WF_vars(NextOutput)

\* C29: output_logerrors returns for every collection of logs, and has
\* then printed the errors of every log that has some exactly once, in log
\* index order, and of no other log.
C29_PrintedOnceInOrder ==
  walk.out = "printed" =>
    /\ \A k \in 1..Len(walk.logs) :
         walk.printed[k] = IF walk.logs[k] > 0 THEN 1 ELSE 0
    /\ walk.ordered
C29_Returns == <>(walk.out = "printed")
C29_ErrorsPrintedOnce == C29_Returns /\ []C29_PrintedOnceInOrder

\* With one log at most the claim holds.
OneLogErrorsPrintedOnce ==
  /\ Len(walk.logs) <= 1 => C29_PrintedOnceInOrder
  /\ Len(walk.logs) <= 1 ~> walk.out = "printed"
\* No log without errors is printed.
CleanLogsNotPrinted ==
  \A k \in 1..Len(walk.logs) : walk.logs[k] = 0 => walk.printed[k] = 0

\* The lines read so far for which read_line gets past the soft ignore
\* (parse_line returned -1 for a line that valid_line rejects); in a run
\* that returns 0 no line is dropped by the abort of the format test.
CountedLines == Cardinality({n \in 1..pos : ~valid_line(input[n])})

\* C28: when read_lines has returned 0, glog->read is the number of lines
\* for which read_line got past the soft ignore and the test abort, with
\* any number of jobs and however the workers interleave, and the line
\* persisted for a file is that number.
C28_ReadIsTrueCount ==
  (m.pc \in {"ret", "done"} /\ m.ret = 0) =>
    /\ glog.read = CountedLines
    /\ (m.persisted /\ src.inode # 0) => ht.line = CountedLines

\* The same with one job.
OneJobReadIsTrueCount == conf.jobs = 1 => C28_ReadIsTrueCount
\* With several jobs glog->read is never above the true count.
ReadAtMostTrueCount ==
  (m.pc \in {"ret", "done"} /\ m.ret = 0) => glog.read <= CountedLines

====
